---- MODULE Spec2Model ----
(***************************************************************************)
(* Model of the Yandex streaming recognition bridge                        *)
(* (src/src/yandex/streaming_stt.rs), of the IAM token cache               *)
(* (src/src/yandex/auth.rs) and of the query built by the spreadsheet      *)
(* value update (src/src/google/spreadsheets.rs).                          *)
(*                                                                         *)
(* Spec      one session returned by streaming_recognize: the caller, the  *)
(*           request stream (async_stream generator polled by the          *)
(*           transport), the spawned supervisor task and the remote        *)
(*           service.                                                      *)
(* SpecAuth  concurrent callers of get_auth_token over the TOKEN slot.     *)
(* SpecDrain a session without failure, with the scheduling of the task,  *)
(*           the request stream and the reading caller taken as fair.      *)
(* SpecPair  two sessions side by side, the first of which may fail.       *)
(* SpecSheets one call of update with any choice of options.               *)
(* SpecService initialize and the head of streaming_recognize over the     *)
(*           SERVICE cell.                                                 *)
(* SpecStart  streaming_recognize from the token to the answer to its      *)
(*           call, while the cached token expires and is refreshed.        *)
(* SpecBusy  threads creating and dropping BusinessToken values            *)
(*           (src/src/business.rs, src/src/health.rs).                     *)
(* SpecLog   the remote log queue and its flusher                          *)
(*           (src/src/logging/mod.rs); SpecLogFair the same with the       *)
(*           scheduling of the flusher and of spawned pushes taken as      *)
(*           fair.                                                         *)
(*                                                                         *)
(* What the transport (tonic) does with the objects handed to it is taken  *)
(* as follows: the request stream is polled from the moment the call is    *)
(* issued; messages it yields are written in the order yielded; when the   *)
(* task that owns the call ends, the call is cancelled and a request       *)
(* stream that has not finished is dropped; responses are read in the      *)
(* order sent, an error or the end of the stream after them.               *)
(* A panic (unwrap on Err) ends the task it happens in and drops what the  *)
(* task owns; it does not end the process.                                 *)
(***************************************************************************)
EXTENDS Integers, Sequences, FiniteSets, TLC

\* ------------------------------------------------------------------------
\* Bounds
\* ------------------------------------------------------------------------
\* number of audio frames the caller pushes in one session
MaxFrames == 2
\* number of responses the service sends in one session
MaxEvents == 2
\* number of concurrent callers of get_auth_token
NumCallers == 2
\* calls of get_auth_token, all callers together
MaxCalls == 3
\* exchange calls the IAM endpoint answers
MaxExchanges == 3
\* clock steps
MaxTicks == 2
\* calls of initialize (RpcBuilder::initialize_streaming_stt)
MaxInits == 2

\* threads that create and drop BusinessToken values
NumThreads == 2
\* BusinessToken values one thread creates
MaxTokens == 2

\* log entries pushed by build_and_push
MaxEntries == 3

\* number of audio frames pushed in the second of two concurrent sessions
MaxPeerFrames == 1
\* number of responses the service sends in the second session
MaxPeerEvents == 1

\* ------------------------------------------------------------------------
\* Values
\* ------------------------------------------------------------------------
\* payloads of Vec<u8> audio frames
Frames == {"a", "b"}
\* StreamingRecognitionResponse values produced by the service
Events == {"partial", "final"}
\* the `config` argument of streaming_recognize: None or Some(custom)
ConfigArgs == {"None", "custom"}

\* default_config(folder_id), used when the argument is None
default_config == "default"

\* config.unwrap_or_else(|| default_config(..))
UnwrapConfig(arg) == IF arg = "None" THEN default_config ELSE arg

\* StreamingRecognitionRequest { streaming_request: Some(Config(config)) }
ConfigRequest(c) == [kind |-> "config", body |-> c]
\* StreamingRecognitionRequest { streaming_request: Some(AudioContent(audio)) }
AudioRequest(a) == [kind |-> "audio", body |-> a]

VARIABLES
    \* ---- session (streaming_stt.rs) ----
    config,          \* the config the session was started with (after unwrap_or_else)
    task,            \* supervisor task: "spawned", "handshake", "recv", "done", "panicked"
    exit_cause,      \* why the task ended: "none", "connect", "stream", "send", "eof"
    stream,          \* request generator: "start", "loop", "ended", "dropped"
    audio_queue,     \* content of the unbounded audio channel (once the stream is
                     \* "dropped": the frames that were dropped with it, unsent)
    audio_sender,    \* TRUE while the caller holds the AudioSink
    result_queue,    \* content of the unbounded result channel
    result_sender,   \* TRUE while the task holds result_sender
    result_receiver, \* TRUE while the caller holds the ResultSource
    wire,            \* messages written to the network stream, in order
    write_closed,    \* the request stream ended (write-half closed)
    net_in,          \* responses sent by the service, not yet read by the task
    net_end,         \* response side: "connecting", "open", "closed", "error"
    \* ---- history of the session ----
    enqueued,        \* frames accepted by audio_sender.send, in order
    server_sent,     \* responses sent by the service, in order
    received,        \* responses returned by inner.message(), in order
    delivered,       \* items the caller read from the ResultSource, in order
    result_closed,   \* the caller has seen recv() return None
    backlog_at_poll, \* two frames or more were queued when the stream was first polled
    sent_after_close, \* the service sent a response after the AudioSink was closed
    closed_with,     \* frames queued and unsent when the AudioSink was closed (-1 before)
    send_failed,     \* an audio_sender.send has returned Err
    closed_after_sink, \* the service closed its side after the AudioSink was closed
    old_queued,      \* -1 while the ResultSource is held; after its drop: the
                     \* frames enqueued before the drop that are still queued,
                     \* or -2 once a frame enqueued after the drop was written
    peer_at_end,     \* what the second session's task was doing when the task
                     \* ended: "none" before, then "running" or "other"
    \* ---- token cache (auth.rs) ----
    now,             \* chrono::Utc::now(), in seconds
    TOKEN_set,       \* TOKEN.get() is Some
    TOKEN,           \* the TokenRequestResult inside the RwLock: [iam_token, expires_at]
    lock_writer,     \* the caller holding the write guard, 0 when none
    pc,              \* per caller: position inside get_auth_token
    result,          \* per caller: `result`, the TokenRequestResult it fetched
    ret,             \* per caller: the String its last call returned (0: none)
    exchanges,       \* number of exchange calls answered by the IAM endpoint
    \* ---- history of the token cache ----
    ticks,           \* number of clock steps taken
    calls,           \* per caller: calls of get_auth_token started
    seen,            \* per caller: what the current call read under the read
                     \* guard: [iam_token, expires_at, at], at = -1 when nothing
    call_exchanges,  \* per caller: exchanges made by the current call
    prev_call,       \* per caller: [seen, exchanges] of its call before
    published,       \* per caller: the slot content right after its last write
    issued,          \* expires_at of every token the IAM endpoint issued, by token
    \* ---- spreadsheet value update (spreadsheets.rs) ----
    update_params,   \* the UpdateParams options update() was called with
    update_sent,     \* the request update() sent: <<>> before, else <<request>>
    \* ---- a second session, running beside the first (streaming_stt.rs) ----
    peer_task,       \* its supervisor task ("absent": no second session)
    peer_stream,     \* its request generator
    peer_audio_queue,    \* content of its audio channel
    peer_audio_sender,   \* TRUE while its caller holds its AudioSink
    peer_result_queue,   \* content of its result channel
    peer_result_sender,  \* TRUE while its task holds its result_sender
    peer_wire,       \* messages written to its network stream, in order
    peer_write_closed,   \* its request stream ended
    peer_net_in,     \* responses sent on its stream, not yet read by its task
    peer_net_end,    \* response side of its stream
    peer_enqueued,   \* history: frames accepted by its audio_sender.send
    peer_server_sent,    \* history: responses the service sent on its stream
    peer_delivered,  \* history: items its caller read from its ResultSource
    peer_result_closed,  \* its caller has seen recv() return None
    \* ---- start of a session: initialize and the head of ----
    \* ---- streaming_recognize (streaming_stt.rs 15-74)     ----
    SERVICE,         \* the OnceCell: 0 while empty, else the instance stored
    init_pc,         \* per call of initialize: where it is
    rec_pc,          \* per call of streaming_recognize: where it is
    rec_service,     \* per call: the instance SERVICE.get() gave it, 0 before
    session_token,   \* the token moved into the interceptor of the first
                     \* session, 0 before that session exists
    request_token,   \* the token the interceptor put on the request of the
                     \* first session, 0 while the call is not issued
    \* ---- business counter (business.rs; the same code is the module ----
    \* ---- `business` of health.rs) and the health report            ----
    BUSINESS_COUNTER,    \* the AtomicUsize
    made,            \* per thread: BusinessToken values it has created
    held,            \* per thread: BusinessToken values it holds, not dropped
    health_report,   \* the is_busy field of the last report of health(), with
                     \* the number of tokens alive when it was taken
    \* ---- remote log queue (logging/mod.rs, google/logging/google.rs) ----
    LOGGER_QUEUE,    \* content of the Vec behind the Mutex
    flusher,         \* the flusher task: "absent" before LOGGER_QUEUE is first
                     \* touched, then "delay", "locked", "writing", "panicked"
    batch,           \* entries of the write_log call in progress
    spawned,         \* entries held by spawned tasks awaiting the lock
    pushed,          \* history: number of build_and_push calls so far; the
                     \* k-th call builds entry k
    sent,            \* history: the non-empty batches handed to write_log
    last_result      \* outcome of the last write_log call that returned

sessionVars == <<config, task, exit_cause, stream, audio_queue, audio_sender,
                 result_queue, result_sender, result_receiver, wire,
                 write_closed, net_in, net_end, enqueued, server_sent,
                 received, delivered, result_closed, backlog_at_poll,
                 sent_after_close, closed_with, send_failed,
                 closed_after_sink, peer_at_end, old_queued>>

authVars == <<now, TOKEN_set, TOKEN, lock_writer, pc, result, ret,
              exchanges, ticks, calls, seen, call_exchanges, prev_call,
              published, issued>>

sheetVars == <<update_params, update_sent>>

peerVars == <<peer_task, peer_stream, peer_audio_queue, peer_audio_sender,
              peer_result_queue, peer_result_sender, peer_wire,
              peer_write_closed, peer_net_in, peer_net_end, peer_enqueued,
              peer_server_sent, peer_delivered, peer_result_closed>>

startVars == <<SERVICE, init_pc, rec_pc, rec_service, session_token>>

busyVars == <<BUSINESS_COUNTER, made, held, health_report>>

logVars == <<LOGGER_QUEUE, flusher, batch, spawned, pushed, sent, last_result>>

\* what the step that issues the call leaves alone
outsideTask == <<authVars, sheetVars, peerVars, startVars, busyVars, logVars>>
\* what any other step of a session leaves alone
outsideSession == <<outsideTask, request_token>>
\* what a step of get_auth_token leaves alone
outsideAuth ==
    <<sessionVars, sheetVars, peerVars, startVars, request_token,
      busyVars, logVars>>
\* what a step of update leaves alone
outsideSheets ==
    <<sessionVars, authVars, peerVars, startVars, request_token,
      busyVars, logVars>>
\* what a step of the second session leaves alone
outsidePeer ==
    <<sessionVars, authVars, sheetVars, startVars, request_token,
      busyVars, logVars>>
\* what a step of initialize or of the head of streaming_recognize leaves
\* alone
outsideStart ==
    <<sessionVars, authVars, sheetVars, peerVars, request_token,
      busyVars, logVars>>

\* what a step on the business counter leaves alone
outsideBusy ==
    <<sessionVars, authVars, sheetVars, peerVars, startVars, request_token,
      logVars>>
\* what a step on the log queue leaves alone
outsideLog ==
    <<sessionVars, authVars, sheetVars, peerVars, startVars, request_token,
      busyVars>>

vars == <<sessionVars, authVars, sheetVars, peerVars, startVars,
          request_token, busyVars, logVars>>

\* ------------------------------------------------------------------------
\* Helpers
\* ------------------------------------------------------------------------
IsPrefix(s, t) == Len(s) <= Len(t) /\ \A i \in 1..Len(s) : s[i] = t[i]

RECURSIVE Count(_, _)
Count(s, x) == IF s = <<>> THEN 0
               ELSE (IF Head(s) = x THEN 1 ELSE 0) + Count(Tail(s), x)

RECURSIVE AudioOf(_)
\* the audio payloads among the messages of a stream, in order
AudioOf(w) == IF w = <<>> THEN <<>>
              ELSE IF Head(w).kind = "audio"
                   THEN <<Head(w).body>> \o AudioOf(Tail(w))
                   ELSE AudioOf(Tail(w))

RECURSIVE ConfigCount(_)
ConfigCount(w) == IF w = <<>> THEN 0
                  ELSE (IF Head(w).kind = "config" THEN 1 ELSE 0) + ConfigCount(Tail(w))

\* ------------------------------------------------------------------------
\* tokio::sync::mpsc unbounded channel
\* ------------------------------------------------------------------------
\* variant of ChanSend: the new item goes to the front of the queue
ChanSend_front(q, m) == <<m>> \o q

\* UnboundedSender::send on a channel whose receiver is alive
ChanSend(q, m) == Append(q, m)

\* variant of ChanRecv: a closed channel reports "none" before it is drained
ChanRecv_no_drain(q, senderAlive) ==
    IF ~senderAlive THEN "none"
    ELSE IF q # <<>> THEN "item"
    ELSE "pending"

\* UnboundedReceiver::recv: "item" while something is queued, "none" once the
\* queue is empty and every sender is gone, "pending" otherwise
ChanRecv(q, senderAlive) ==
    IF q # <<>> THEN "item"
    ELSE IF ~senderAlive THEN "none"
    ELSE "pending"

\* ------------------------------------------------------------------------
\* Init: the state in which streaming_recognize returns
\* (audio_sender, result_receiver): both channels exist, the task is spawned
\* and has not run yet, the generator has not been polled.
\* ------------------------------------------------------------------------
InitSession ==
    /\ config \in {UnwrapConfig(a) : a \in ConfigArgs}
    /\ task = "spawned"
    /\ exit_cause = "none"
    /\ stream = "start"
    /\ audio_queue = <<>>
    /\ audio_sender = TRUE
    /\ result_queue = <<>>
    /\ result_sender = TRUE
    /\ result_receiver = TRUE
    /\ wire = <<>>
    /\ write_closed = FALSE
    /\ net_in = <<>>
    /\ net_end = "connecting"
    /\ enqueued = <<>>
    /\ server_sent = <<>>
    /\ received = <<>>
    /\ delivered = <<>>
    /\ result_closed = FALSE
    /\ backlog_at_poll = FALSE
    /\ sent_after_close = FALSE
    /\ closed_with = -1
    /\ send_failed = FALSE
    /\ closed_after_sink = FALSE
    /\ peer_at_end = "none"
    /\ old_queued = -1

\* whether the task of the second session is between its first poll and
\* its end
PeerPosition ==
    IF peer_task \in {"handshake", "recv"} THEN "running" ELSE "other"

\* the audio receiver lives inside the generator
AudioReceiverAlive == stream \in {"start", "loop"}

\* the transport polls the request stream once the call has been issued, for
\* as long as the stream exists
StreamPolled == task # "spawned" /\ AudioReceiverAlive

\* ------------------------------------------------------------------------
\* The caller
\* ------------------------------------------------------------------------
\* audio_sender.send(frame): queued while the receiver is alive, otherwise
\* the frame is handed back in the error and nothing is queued
CallerPush(f) ==
    /\ audio_sender
    /\ Len(enqueued) < MaxFrames
    /\ AudioReceiverAlive
    /\ audio_queue' = ChanSend(audio_queue, f)
    /\ enqueued' = Append(enqueued, f)
    /\ UNCHANGED <<config, task, exit_cause, stream, audio_sender, result_queue,
                   result_sender, result_receiver, wire, write_closed, net_in,
                   net_end, server_sent, received, delivered, result_closed,
                   backlog_at_poll, sent_after_close,
                   closed_with, send_failed,
                   closed_after_sink, peer_at_end, old_queued>>
    /\ UNCHANGED outsideSession

\* audio_sender.send(frame) after the receiver was dropped: Err(SendError)
CallerPushFail ==
    /\ audio_sender
    /\ ~AudioReceiverAlive
    /\ ~send_failed
    /\ send_failed' = TRUE
    /\ UNCHANGED <<config, task, exit_cause, stream, audio_queue, audio_sender,
                   result_queue, result_sender, result_receiver, wire,
                   write_closed, net_in, net_end, enqueued, server_sent,
                   received, delivered, result_closed, backlog_at_poll,
                   sent_after_close, closed_with,
                   closed_after_sink, peer_at_end, old_queued>>
    /\ UNCHANGED outsideSession

\* drop(audio_sender)
CallerCloseSink ==
    /\ audio_sender
    /\ audio_sender' = FALSE
    /\ closed_with' = IF AudioReceiverAlive /\ AudioOf(wire) = <<>>
                      THEN Len(audio_queue) ELSE 0
    /\ UNCHANGED <<config, task, exit_cause, stream, audio_queue, result_queue,
                   result_sender, result_receiver, wire, write_closed, net_in,
                   net_end, enqueued, server_sent, received, delivered,
                   result_closed, backlog_at_poll, sent_after_close, send_failed,
                   closed_after_sink, peer_at_end, old_queued>>
    /\ UNCHANGED outsideSession

\* result_receiver.recv().await returning Some(message) or None
CallerRecv ==
    /\ result_receiver
    /\ ~result_closed
    /\ LET r == ChanRecv(result_queue, result_sender) IN
       /\ r # "pending"
       /\ IF r = "item"
          THEN /\ delivered' = Append(delivered, Head(result_queue))
               /\ result_queue' = Tail(result_queue)
               /\ UNCHANGED result_closed
          ELSE /\ result_closed' = TRUE
               /\ UNCHANGED <<delivered, result_queue>>
    /\ UNCHANGED <<config, task, exit_cause, stream, audio_queue, audio_sender,
                   result_sender, result_receiver, wire, write_closed, net_in,
                   net_end, enqueued, server_sent, received, backlog_at_poll,
                   sent_after_close,
                   closed_with, send_failed,
                   closed_after_sink, peer_at_end, old_queued>>
    /\ UNCHANGED outsideSession

\* drop(result_receiver): whatever is still queued is discarded
CallerDropResult ==
    /\ result_receiver
    /\ result_receiver' = FALSE
    /\ result_queue' = <<>>
    /\ old_queued' = IF AudioReceiverAlive THEN Len(audio_queue) ELSE 0
    /\ UNCHANGED <<config, task, exit_cause, stream, audio_queue, audio_sender,
                   result_sender, wire, write_closed, net_in, net_end, enqueued,
                   server_sent, received, delivered, result_closed,
                   backlog_at_poll, sent_after_close,
                   closed_with, send_failed,
                   closed_after_sink, peer_at_end>>
    /\ UNCHANGED outsideSession

\* ------------------------------------------------------------------------
\* The request stream: async_stream::stream! { yield config; while let
\* Some(audio) = audio_receiver.recv().await { yield audio } }
\* Each action is one poll of the generator by the transport that ends in a
\* write to the network stream or in the end of the stream.
\* ------------------------------------------------------------------------
\* variant of StreamYieldConfig: frames already queued go out before the config
StreamYieldConfig_after_queued ==
    /\ StreamPolled
    /\ stream = "start"
    /\ IF audio_queue # <<>>
       THEN /\ wire' = Append(wire, AudioRequest(Head(audio_queue)))
            /\ audio_queue' = Tail(audio_queue)
            /\ UNCHANGED <<stream, backlog_at_poll>>
       ELSE /\ wire' = Append(wire, ConfigRequest(config))
            /\ stream' = "loop"
            /\ backlog_at_poll' = (Len(audio_queue) >= 2)
            /\ UNCHANGED audio_queue
    /\ UNCHANGED <<config, task, exit_cause, audio_sender,
                   result_queue, result_sender, result_receiver, write_closed,
                   net_in, net_end, enqueued, server_sent, received, delivered,
                   result_closed, sent_after_close, closed_with, send_failed,
                   closed_after_sink, peer_at_end, old_queued>>
    /\ UNCHANGED outsideSession

\* first poll: the config is yielded whatever the audio channel holds
StreamYieldConfig ==
    /\ StreamPolled
    /\ stream = "start"
    /\ wire' = Append(wire, ConfigRequest(config))
    /\ stream' = "loop"
    /\ backlog_at_poll' = (Len(audio_queue) >= 2)
    /\ UNCHANGED <<config, task, exit_cause, audio_queue, audio_sender,
                   result_queue, result_sender, result_receiver, write_closed,
                   net_in, net_end, enqueued, server_sent, received, delivered,
                   result_closed, sent_after_close,
                   closed_with, send_failed,
                   closed_after_sink, peer_at_end, old_queued>>
    /\ UNCHANGED outsideSession

\* old_queued after one more frame is written
AfterWrite(q) == IF q > 0 THEN q - 1 ELSE IF q = 0 THEN -2 ELSE q

\* the frame is written and left at the head of the queue
StreamYieldAudio_kept ==
    /\ StreamPolled
    /\ stream = "loop"
    /\ ChanRecv(audio_queue, audio_sender) = "item"
    /\ wire' = Append(wire, AudioRequest(Head(audio_queue)))
    /\ old_queued' = AfterWrite(old_queued)
    /\ UNCHANGED <<config, task, exit_cause, stream, audio_queue, audio_sender,
                   result_queue, result_sender, result_receiver, write_closed,
                   net_in, net_end, enqueued, server_sent, received, delivered,
                   result_closed, backlog_at_poll, sent_after_close,
                   closed_with, send_failed,
                   closed_after_sink, peer_at_end>>
    /\ UNCHANGED outsideSession

\* recv() returned Some(audio): the frame leaves the queue and is written
StreamYieldAudio ==
    /\ StreamPolled
    /\ stream = "loop"
    /\ ChanRecv(audio_queue, audio_sender) = "item"
    /\ wire' = Append(wire, AudioRequest(Head(audio_queue)))
    /\ audio_queue' = Tail(audio_queue)
    /\ old_queued' = AfterWrite(old_queued)
    /\ UNCHANGED <<config, task, exit_cause, stream, audio_sender, result_queue,
                   result_sender, result_receiver, write_closed, net_in, net_end,
                   enqueued, server_sent, received, delivered, result_closed,
                   backlog_at_poll, sent_after_close,
                   closed_with, send_failed,
                   closed_after_sink, peer_at_end>>
    /\ UNCHANGED outsideSession

\* recv() returned None: the while-let ends, the generator returns and the
\* request stream is finished (write-half closed)
StreamEnd ==
    /\ StreamPolled
    /\ stream = "loop"
    /\ ChanRecv(audio_queue, audio_sender) = "none"
    /\ stream' = "ended"
    /\ write_closed' = TRUE
    /\ UNCHANGED <<config, task, exit_cause, audio_queue, audio_sender,
                   result_queue, result_sender, result_receiver, wire, net_in,
                   net_end, enqueued, server_sent, received, delivered,
                   result_closed, backlog_at_poll, sent_after_close,
                   closed_with, send_failed,
                   closed_after_sink, peer_at_end, old_queued>>
    /\ UNCHANGED outsideSession

\* ------------------------------------------------------------------------
\* The remote service and the network
\* ------------------------------------------------------------------------
\* the service sends one response
ServerSend(e) ==
    /\ net_end = "open"
    /\ Len(server_sent) < MaxEvents
    /\ net_in' = Append(net_in, e)
    /\ server_sent' = Append(server_sent, e)
    /\ sent_after_close' = (sent_after_close \/ ~audio_sender)
    /\ UNCHANGED <<config, task, exit_cause, stream, audio_queue, audio_sender,
                   result_queue, result_sender, result_receiver, wire,
                   write_closed, net_end, enqueued, received, delivered,
                   result_closed, backlog_at_poll,
                   closed_with, send_failed,
                   closed_after_sink, peer_at_end, old_queued>>
    /\ UNCHANGED outsideSession

\* the service closes its side of the stream without error
ServerClose ==
    /\ net_end = "open"
    /\ net_end' = "closed"
    /\ closed_after_sink' = ~audio_sender
    /\ UNCHANGED <<config, task, exit_cause, stream, audio_queue, audio_sender,
                   result_queue, result_sender, result_receiver, wire,
                   write_closed, net_in, enqueued, server_sent, received,
                   delivered, result_closed, backlog_at_poll, sent_after_close,
                   closed_with, send_failed, peer_at_end, old_queued>>
    /\ UNCHANGED outsideSession

\* a network-level error hits the open stream; the write side either breaks
\* with it (the transport drops the request stream) or stays usable until the
\* task gives the call up
NetError(breaksWrite) ==
    /\ net_end = "open"
    /\ net_end' = "error"
    /\ stream' = IF breaksWrite /\ AudioReceiverAlive THEN "dropped" ELSE stream
    /\ UNCHANGED <<config, task, exit_cause, audio_queue, audio_sender,
                   result_queue, result_sender, result_receiver, wire,
                   write_closed, net_in, enqueued, server_sent, received,
                   delivered, result_closed, backlog_at_poll, sent_after_close,
                   closed_with, send_failed,
                   closed_after_sink, peer_at_end, old_queued>>
    /\ UNCHANGED outsideSession

\* ------------------------------------------------------------------------
\* The supervisor task: tokio::spawn(async move { .. })
\* ------------------------------------------------------------------------
\* variant of StreamAfterTaskEnd: the request stream outlives the task
StreamAfterTaskEnd_keep(s) == s

\* the task owns the call: when it ends (returns or panics) the response
\* stream is dropped, the call is cancelled and a request stream that has not
\* finished is dropped with its audio receiver
StreamAfterTaskEnd(s) == IF s = "ended" THEN "ended" ELSE "dropped"

\* variant of TaskStart: the token put on the request is read from the
\* cache when the call is issued
TaskStart_cached_token ==
    /\ task = "spawned"
    /\ task' = "handshake"
    /\ request_token' = TOKEN.iam_token
    /\ UNCHANGED <<config, exit_cause, stream, audio_queue, audio_sender,
                   result_queue, result_sender, result_receiver, wire,
                   write_closed, net_in, net_end, enqueued, server_sent,
                   received, delivered, result_closed, backlog_at_poll,
                   sent_after_close,
                   closed_with, send_failed,
                   closed_after_sink, peer_at_end, old_queued>>
    /\ UNCHANGED outsideTask

\* first poll of the task: service.streaming_recognize(stream) is issued and
\* the request stream is handed to the transport; the interceptor puts its
\* clone of the token on the request (streaming_stt.rs 69-73)
TaskStart ==
    /\ task = "spawned"
    /\ task' = "handshake"
    /\ request_token' = session_token
    /\ UNCHANGED <<config, exit_cause, stream, audio_queue, audio_sender,
                   result_queue, result_sender, result_receiver, wire,
                   write_closed, net_in, net_end, enqueued, server_sent,
                   received, delivered, result_closed, backlog_at_poll,
                   sent_after_close,
                   closed_with, send_failed,
                   closed_after_sink, peer_at_end, old_queued>>
    /\ UNCHANGED outsideTask

\* service.streaming_recognize(stream).await is Ok: messages.into_inner()
HandshakeOk ==
    /\ task = "handshake"
    /\ net_end = "connecting"
    /\ task' = "recv"
    /\ net_end' = "open"
    /\ UNCHANGED <<config, exit_cause, stream, audio_queue, audio_sender,
                   result_queue, result_sender, result_receiver, wire,
                   write_closed, net_in, enqueued, server_sent, received,
                   delivered, result_closed, backlog_at_poll, sent_after_close,
                   closed_with, send_failed,
                   closed_after_sink, peer_at_end, old_queued>>
    /\ UNCHANGED outsideSession

\* variant of HandshakeFail: result_sender is not dropped with the task
HandshakeFail_sender_kept ==
    /\ task = "handshake"
    /\ net_end = "connecting"
    /\ task' = "panicked"
    /\ exit_cause' = "connect"
    /\ net_end' = "error"
    /\ stream' = IF stream = "ended" THEN "ended" ELSE "dropped"
    /\ UNCHANGED <<config, audio_queue, audio_sender, result_queue,
                   result_sender, result_receiver, wire, write_closed, net_in,
                   enqueued, server_sent, received, delivered, result_closed,
                   backlog_at_poll, sent_after_close, closed_with, send_failed,
                   closed_after_sink, old_queued>>
    /\ peer_at_end' = PeerPosition
    /\ UNCHANGED outsideSession

\* service.streaming_recognize(stream).await is Err: unwrap() panics, the
\* task unwinds and drops result_sender and the call
HandshakeFail ==
    /\ task = "handshake"
    /\ net_end = "connecting"
    /\ task' = "panicked"
    /\ exit_cause' = "connect"
    /\ net_end' = "error"
    /\ result_sender' = FALSE
    /\ stream' = StreamAfterTaskEnd(stream)
    /\ UNCHANGED <<config, audio_queue, audio_sender, result_queue,
                   result_receiver, wire, write_closed, net_in, enqueued,
                   server_sent, received, delivered, result_closed,
                   backlog_at_poll, sent_after_close,
                   closed_with, send_failed,
                   closed_after_sink, old_queued>>
    /\ peer_at_end' = PeerPosition
    /\ UNCHANGED outsideSession

\* variant of RecvMessage: partial results are not forwarded
RecvMessage_skip_partial ==
    /\ task = "recv"
    /\ net_in # <<>>
    /\ result_receiver
    /\ received' = Append(received, Head(net_in))
    /\ net_in' = Tail(net_in)
    /\ result_queue' = IF Head(net_in) = "partial" THEN result_queue
                       ELSE Append(result_queue, Head(net_in))
    /\ UNCHANGED <<config, task, exit_cause, stream, audio_queue, audio_sender,
                   result_sender, result_receiver, wire, write_closed, net_end,
                   enqueued, server_sent, delivered, result_closed,
                   backlog_at_poll, sent_after_close, closed_with, send_failed,
                   closed_after_sink, peer_at_end, old_queued>>
    /\ UNCHANGED outsideSession

\* inner.message().await is Ok(Some(message)) and
\* result_sender.send(message) is Ok
RecvMessage ==
    /\ task = "recv"
    /\ net_in # <<>>
    /\ result_receiver
    /\ received' = Append(received, Head(net_in))
    /\ net_in' = Tail(net_in)
    /\ result_queue' = ChanSend(result_queue, Head(net_in))
    /\ UNCHANGED <<config, task, exit_cause, stream, audio_queue, audio_sender,
                   result_sender, result_receiver, wire, write_closed, net_end,
                   enqueued, server_sent, delivered, result_closed,
                   backlog_at_poll, sent_after_close,
                   closed_with, send_failed,
                   closed_after_sink, peer_at_end, old_queued>>
    /\ UNCHANGED outsideSession

\* variant of RecvSendFail: the failed send is ignored and the loop goes on
RecvSendFail_ignored ==
    /\ task = "recv"
    /\ net_in # <<>>
    /\ ~result_receiver
    /\ received' = Append(received, Head(net_in))
    /\ net_in' = Tail(net_in)
    /\ UNCHANGED <<config, task, exit_cause, stream, audio_queue, audio_sender,
                   result_queue, result_sender, result_receiver, wire,
                   write_closed, net_end, enqueued, server_sent, delivered,
                   result_closed, backlog_at_poll, sent_after_close,
                   closed_with, send_failed, closed_after_sink, peer_at_end,
                   old_queued>>
    /\ UNCHANGED outsideSession

\* inner.message().await is Ok(Some(message)) but the ResultSource is gone:
\* result_sender.send(message) is Err and unwrap() panics
RecvSendFail ==
    /\ task = "recv"
    /\ net_in # <<>>
    /\ ~result_receiver
    /\ received' = Append(received, Head(net_in))
    /\ net_in' = Tail(net_in)
    /\ task' = "panicked"
    /\ exit_cause' = "send"
    /\ result_sender' = FALSE
    /\ stream' = StreamAfterTaskEnd(stream)
    /\ UNCHANGED <<config, audio_queue, audio_sender, result_queue,
                   result_receiver, wire, write_closed, net_end, enqueued,
                   server_sent, delivered, result_closed, backlog_at_poll,
                   sent_after_close,
                   closed_with, send_failed,
                   closed_after_sink, old_queued>>
    /\ peer_at_end' = PeerPosition
    /\ UNCHANGED outsideSession

\* variant of RecvEnd: the receive loop also stops once the request stream
\* has ended
RecvEnd_on_write_close ==
    /\ task = "recv"
    /\ \/ net_in = <<>> /\ net_end = "closed"
       \/ write_closed
    /\ task' = "done"
    /\ exit_cause' = "eof"
    /\ result_sender' = FALSE
    /\ stream' = IF stream = "ended" THEN "ended" ELSE "dropped"
    /\ UNCHANGED <<config, audio_queue, audio_sender, result_queue,
                   result_receiver, wire, write_closed, net_in, net_end,
                   enqueued, server_sent, received, delivered, result_closed,
                   backlog_at_poll, sent_after_close, closed_with, send_failed,
                   closed_after_sink, old_queued>>
    /\ peer_at_end' = PeerPosition
    /\ UNCHANGED outsideSession

\* variant of RecvEnd: result_sender is not dropped when the task returns
RecvEnd_sender_kept ==
    /\ task = "recv"
    /\ net_in = <<>>
    /\ net_end = "closed"
    /\ task' = "done"
    /\ exit_cause' = "eof"
    /\ stream' = IF stream = "ended" THEN "ended" ELSE "dropped"
    /\ UNCHANGED <<config, audio_queue, audio_sender, result_queue,
                   result_sender, result_receiver, wire, write_closed, net_in,
                   net_end, enqueued, server_sent, received, delivered,
                   result_closed, backlog_at_poll, sent_after_close,
                   closed_with, send_failed, closed_after_sink, old_queued>>
    /\ peer_at_end' = PeerPosition
    /\ UNCHANGED outsideSession

\* inner.message().await is Ok(None): the while-let ends and the task returns
RecvEnd ==
    /\ task = "recv"
    /\ net_in = <<>>
    /\ net_end = "closed"
    /\ task' = "done"
    /\ exit_cause' = "eof"
    /\ result_sender' = FALSE
    /\ stream' = StreamAfterTaskEnd(stream)
    /\ UNCHANGED <<config, audio_queue, audio_sender, result_queue,
                   result_receiver, wire, write_closed, net_in, net_end,
                   enqueued, server_sent, received, delivered, result_closed,
                   backlog_at_poll, sent_after_close,
                   closed_with, send_failed,
                   closed_after_sink, old_queued>>
    /\ peer_at_end' = PeerPosition
    /\ UNCHANGED outsideSession

\* variant of RecvError: the panic is not confined to the task, it ends the
\* tasks of all sessions
RecvError_abort ==
    /\ task = "recv"
    /\ net_in = <<>>
    /\ net_end = "error"
    /\ task' = "panicked"
    /\ exit_cause' = "stream"
    /\ result_sender' = FALSE
    /\ stream' = IF stream = "ended" THEN "ended" ELSE "dropped"
    /\ peer_at_end' = PeerPosition
    /\ peer_task' = IF PeerPosition = "running" THEN "panicked" ELSE peer_task
    /\ peer_result_sender' = IF PeerPosition = "running" THEN FALSE
                              ELSE peer_result_sender
    /\ peer_stream' = IF PeerPosition = "running" /\ peer_stream # "ended"
                      THEN "dropped" ELSE peer_stream
    /\ UNCHANGED <<config, audio_queue, audio_sender, result_queue,
                   result_receiver, wire, write_closed, net_in, net_end,
                   enqueued, server_sent, received, delivered, result_closed,
                   backlog_at_poll, sent_after_close, closed_with, send_failed,
                   closed_after_sink, old_queued>>
    /\ UNCHANGED <<peer_audio_queue, peer_audio_sender, peer_result_queue,
                   peer_wire, peer_write_closed, peer_net_in, peer_net_end,
                   peer_enqueued, peer_server_sent, peer_delivered,
                   peer_result_closed>>
    /\ UNCHANGED <<authVars, sheetVars, startVars, request_token, busyVars,
                   logVars>>

\* variant of RecvError: the task does not end on a stream error, it opens
\* the call again
RecvError_reconnect ==
    /\ task = "recv"
    /\ net_in = <<>>
    /\ net_end = "error"
    /\ task' = "handshake"
    /\ net_end' = "connecting"
    /\ UNCHANGED <<config, exit_cause, stream, audio_queue, audio_sender,
                   result_queue, result_sender, result_receiver, wire,
                   write_closed, net_in, enqueued, server_sent, received,
                   delivered, result_closed, backlog_at_poll, sent_after_close,
                   closed_with, send_failed,
                   closed_after_sink, peer_at_end, old_queued>>
    /\ UNCHANGED outsideSession

\* variant of RecvError: result_sender is not dropped with the task
RecvError_sender_kept ==
    /\ task = "recv"
    /\ net_in = <<>>
    /\ net_end = "error"
    /\ task' = "panicked"
    /\ exit_cause' = "stream"
    /\ stream' = IF stream = "ended" THEN "ended" ELSE "dropped"
    /\ UNCHANGED <<config, audio_queue, audio_sender, result_queue,
                   result_sender, result_receiver, wire, write_closed, net_in,
                   net_end, enqueued, server_sent, received, delivered,
                   result_closed, backlog_at_poll, sent_after_close,
                   closed_with, send_failed,
                   closed_after_sink, old_queued>>
    /\ peer_at_end' = PeerPosition
    /\ UNCHANGED outsideSession

\* inner.message().await is Err(status): unwrap() panics
RecvError ==
    /\ task = "recv"
    /\ net_in = <<>>
    /\ net_end = "error"
    /\ task' = "panicked"
    /\ exit_cause' = "stream"
    /\ result_sender' = FALSE
    /\ stream' = StreamAfterTaskEnd(stream)
    /\ UNCHANGED <<config, audio_queue, audio_sender, result_queue,
                   result_receiver, wire, write_closed, net_in, net_end,
                   enqueued, server_sent, received, delivered, result_closed,
                   backlog_at_poll, sent_after_close,
                   closed_with, send_failed,
                   closed_after_sink, old_queued>>
    /\ peer_at_end' = PeerPosition
    /\ UNCHANGED outsideSession

\* ------------------------------------------------------------------------
\* The state of the session, read off the task, the request stream and the
\* AudioSink: the code keeps no state field
\* ------------------------------------------------------------------------
\* Closed: the task has ended; Connecting: the call is not answered yet and
\* no config is written, or it is answered before the config is written;
\* ConfigSent: the config is written while the call is not answered yet;
\* Draining: the call is answered and the AudioSink is dropped; Streaming:
\* the call is answered, the config is written, the AudioSink is held
SessionState ==
    IF task \in {"done", "panicked"} THEN "Closed"
    ELSE IF task \in {"spawned", "handshake"}
         THEN IF wire = <<>> THEN "Connecting" ELSE "ConfigSent"
    ELSE IF ~audio_sender THEN "Draining"
    ELSE IF stream = "start" THEN "Connecting"
    ELSE "Streaming"

\* the order of the states
SessionStates ==
    <<"Connecting", "ConfigSent", "Streaming", "Draining", "Closed">>

StateRank(st) == CHOOSE i \in 1..Len(SessionStates) : SessionStates[i] = st

\* ========================================================================
\* The IAM token cache: get_auth_token (auth.rs)
\* ========================================================================
Callers == 1..NumCallers

\* seconds the clock may advance in one step
TickSteps == {1, 3600}
\* lifetimes the IAM endpoint gives to the tokens it issues, in seconds
Lifetimes == {3600}

NoResult == [iam_token |-> 0, expires_at |-> 0]
NotSeen == [iam_token |-> 0, expires_at |-> 0, at |-> -1]

\* variant of TokenValid: the comparison is turned around
TokenValid_reversed(expires_at, t) == t - expires_at > 0

\* variant of TokenValid: a token is still used at the instant it expires
TokenValid_lax(expires_at, t) == expires_at - t >= 0

\* lock.expires_at - chrono::Utc::now() > chrono::Duration::zero()
TokenValid(expires_at, t) == expires_at - t > 0

\* the state before anything called get_auth_token: TOKEN is an empty OnceCell
InitAuth ==
    /\ now = 0
    /\ TOKEN_set = FALSE
    /\ TOKEN = NoResult
    /\ lock_writer = 0
    /\ pc = [c \in Callers |-> "idle"]
    /\ result = [c \in Callers |-> NoResult]
    /\ ret = [c \in Callers |-> 0]
    /\ exchanges = 0
    /\ ticks = 0
    /\ calls = [c \in Callers |-> 0]
    /\ seen = [c \in Callers |-> NotSeen]
    /\ call_exchanges = [c \in Callers |-> 0]
    /\ prev_call = [c \in Callers |-> [seen |-> NotSeen, exchanges |-> 0]]
    /\ published = [c \in Callers |-> NoResult]
    /\ issued = <<>>

\* a call read a token under the read guard before its expiry
SawValid(s) == s.at >= 0 /\ s.expires_at > s.at
\* a call read a token under the read guard at or after its expiry
SawExpired(s) == s.at >= 0 /\ s.expires_at <= s.at

RECURSIVE SumUpTo(_, _)
SumUpTo(f, n) == IF n = 0 THEN 0 ELSE f[n] + SumUpTo(f, n - 1)
\* calls of get_auth_token started so far
TotalCalls == SumUpTo(calls, NumCallers)

\* a caller enters get_auth_token: `if let Some(res) = TOKEN.get()`
StartCall(c) ==
    /\ pc[c] \in {"idle", "returned", "panicked"}
    /\ TotalCalls < MaxCalls
    /\ calls' = [calls EXCEPT ![c] = @ + 1]
    /\ pc' = [pc EXCEPT ![c] = IF TOKEN_set THEN "read_wait" ELSE "init_fetch"]
    /\ prev_call' = [prev_call EXCEPT ![c] =
                        [seen |-> seen[c], exchanges |-> call_exchanges[c]]]
    /\ seen' = [seen EXCEPT ![c] = NotSeen]
    /\ call_exchanges' = [call_exchanges EXCEPT ![c] = 0]
    /\ result' = [result EXCEPT ![c] = NoResult]
    /\ ret' = [ret EXCEPT ![c] = 0]
    /\ UNCHANGED <<now, TOKEN_set, TOKEN, lock_writer, exchanges,
                   ticks, published, issued>>
    /\ UNCHANGED outsideAuth

\* variant of ReadToken: the read does not wait for the write guard
ReadToken_no_lock(c) ==
    /\ pc[c] = "read_wait"
    /\ seen' = [seen EXCEPT ![c] = [iam_token |-> TOKEN.iam_token,
                                    expires_at |-> TOKEN.expires_at,
                                    at |-> now]]
    /\ IF TokenValid(TOKEN.expires_at, now)
       THEN /\ ret' = [ret EXCEPT ![c] = TOKEN.iam_token]
            /\ pc' = [pc EXCEPT ![c] = "returned"]
       ELSE /\ pc' = [pc EXCEPT ![c] = "refresh_fetch"]
            /\ UNCHANGED ret
    /\ UNCHANGED <<now, TOKEN_set, TOKEN, lock_writer, result, exchanges, ticks,
                   calls, call_exchanges, prev_call, published, issued>>
    /\ UNCHANGED outsideAuth

\* `let lock = res.read().await` completes once no write guard is out; the
\* expiry test runs under the read guard, without an await: the cached
\* token is returned, or the block is left; the guard is dropped either way
ReadToken(c) ==
    /\ pc[c] = "read_wait"
    /\ lock_writer = 0
    /\ seen' = [seen EXCEPT ![c] = [iam_token |-> TOKEN.iam_token,
                                    expires_at |-> TOKEN.expires_at,
                                    at |-> now]]
    /\ IF TokenValid(TOKEN.expires_at, now)
       THEN /\ ret' = [ret EXCEPT ![c] = TOKEN.iam_token]
            /\ pc' = [pc EXCEPT ![c] = "returned"]
       ELSE /\ pc' = [pc EXCEPT ![c] = "refresh_fetch"]
            /\ UNCHANGED ret
    /\ UNCHANGED <<now, TOKEN_set, TOKEN, lock_writer, result, exchanges, ticks,
                   calls, call_exchanges, prev_call, published, issued>>
    /\ UNCHANGED outsideAuth

\* variant of Exchange: refreshes are coalesced, a caller that finds another
\* caller's result waiting to be written takes that result
Exchange_coalesced(c, life) ==
    /\ pc[c] \in {"refresh_fetch", "init_fetch"}
    /\ exchanges < MaxExchanges
    /\ LET inflight == {d \in Callers \ {c} :
                          pc[d] \in {"write_wait", "write_locked", "write_half"}}
       IN IF inflight # {}
          THEN /\ result' = [result EXCEPT ![c] =
                                result[CHOOSE d \in inflight : TRUE]]
               /\ UNCHANGED <<exchanges, issued>>
          ELSE /\ exchanges' = exchanges + 1
               /\ result' = [result EXCEPT ![c] =
                                [iam_token |-> exchanges + 1,
                                 expires_at |-> now + life]]
               /\ issued' = Append(issued, now + life)
    /\ call_exchanges' = [call_exchanges EXCEPT ![c] = @ + 1]
    /\ pc' = [pc EXCEPT ![c] = IF pc[c] = "refresh_fetch" THEN "write_wait"
                               ELSE "init_set"]
    /\ UNCHANGED <<now, TOKEN_set, TOKEN, lock_writer, ret, ticks,
                   calls, seen, prev_call, published>>
    /\ UNCHANGED outsideAuth

\* get_iam_token().await is answered: a new token with its expiry
Exchange(c, life) ==
    /\ pc[c] \in {"refresh_fetch", "init_fetch"}
    /\ exchanges < MaxExchanges
    /\ exchanges' = exchanges + 1
    /\ result' = [result EXCEPT ![c] = [iam_token |-> exchanges + 1,
                                        expires_at |-> now + life]]
    /\ call_exchanges' = [call_exchanges EXCEPT ![c] = @ + 1]
    /\ pc' = [pc EXCEPT ![c] = IF pc[c] = "refresh_fetch" THEN "write_wait"
                               ELSE "init_set"]
    /\ issued' = Append(issued, now + life)
    /\ UNCHANGED <<now, TOKEN_set, TOKEN, lock_writer, ret, ticks,
                   calls, seen, prev_call, published>>
    /\ UNCHANGED outsideAuth

\* variant of ExchangeFail: the exchange is made with the write guard out,
\* and the failure leaves the guard held
ExchangeFail_lock_held(c) ==
    /\ pc[c] \in {"refresh_fetch", "init_fetch"}
    /\ lock_writer = 0
    /\ lock_writer' = c
    /\ pc' = [pc EXCEPT ![c] = "panicked"]
    /\ UNCHANGED <<now, TOKEN_set, TOKEN, result, ret,
                   exchanges, ticks, calls, seen, call_exchanges, prev_call,
                   published, issued>>
    /\ UNCHANGED outsideAuth

\* variant of ExchangeFail: the panic ends every caller (the process aborts)
ExchangeFail_abort(c) ==
    /\ pc[c] \in {"refresh_fetch", "init_fetch"}
    /\ pc' = [d \in Callers |-> "panicked"]
    /\ UNCHANGED <<now, TOKEN_set, TOKEN, lock_writer, result, ret,
                   exchanges, ticks, calls, seen, call_exchanges, prev_call,
                   published, issued>>
    /\ UNCHANGED outsideAuth

\* get_iam_token().await fails (YANDEX_KEY.get, encode, send or json):
\* unwrap() panics in the caller
ExchangeFail(c) ==
    /\ pc[c] \in {"refresh_fetch", "init_fetch"}
    /\ pc' = [pc EXCEPT ![c] = "panicked"]
    /\ UNCHANGED <<now, TOKEN_set, TOKEN, lock_writer, result, ret,
                   exchanges, ticks, calls, seen, call_exchanges, prev_call,
                   published, issued>>
    /\ UNCHANGED outsideAuth

\* `res.write().await` completes: no guard is out (a read guard is never
\* held across a step, see ReadToken)
AcquireWrite(c) ==
    /\ pc[c] = "write_wait"
    /\ lock_writer = 0
    /\ lock_writer' = c
    /\ pc' = [pc EXCEPT ![c] = "write_locked"]
    /\ UNCHANGED <<now, TOKEN_set, TOKEN, result, ret, exchanges,
                   ticks, calls, seen, call_exchanges, prev_call, published, issued>>
    /\ UNCHANGED outsideAuth

\* `*guard = result`, first field
StoreToken(c) ==
    /\ pc[c] = "write_locked"
    /\ TOKEN' = [TOKEN EXCEPT !.iam_token = result[c].iam_token]
    /\ pc' = [pc EXCEPT ![c] = "write_half"]
    /\ UNCHANGED <<now, TOKEN_set, lock_writer, result, ret,
                   exchanges, ticks, calls, seen, call_exchanges, prev_call,
                   published, issued>>
    /\ UNCHANGED outsideAuth

\* variant of StoreExpiry: the later of the cached and the fetched expiry is
\* kept
StoreExpiry_keep_later(c) ==
    /\ pc[c] = "write_half"
    /\ TOKEN' = [TOKEN EXCEPT !.expires_at =
                    IF result[c].expires_at > @ THEN result[c].expires_at ELSE @]
    /\ lock_writer' = 0
    /\ published' = [published EXCEPT ![c] = TOKEN']
    /\ ret' = [ret EXCEPT ![c] = result[c].iam_token]
    /\ pc' = [pc EXCEPT ![c] = "returned"]
    /\ UNCHANGED <<now, TOKEN_set, result, exchanges, ticks, calls,
                   seen, call_exchanges, prev_call, issued>>
    /\ UNCHANGED outsideAuth

\* `*guard = result`, second field; the guard is dropped at the end of the
\* statement and the call returns `token`, the clone of result.iam_token
StoreExpiry(c) ==
    /\ pc[c] = "write_half"
    /\ TOKEN' = [TOKEN EXCEPT !.expires_at = result[c].expires_at]
    /\ lock_writer' = 0
    /\ published' = [published EXCEPT ![c] = TOKEN']
    /\ ret' = [ret EXCEPT ![c] = result[c].iam_token]
    /\ pc' = [pc EXCEPT ![c] = "returned"]
    /\ UNCHANGED <<now, TOKEN_set, result, exchanges, ticks, calls,
                   seen, call_exchanges, prev_call, issued>>
    /\ UNCHANGED outsideAuth

\* variant of InitSet: a later set replaces the value of the slot
InitSet_last_wins(c) ==
    /\ pc[c] = "init_set"
    /\ TOKEN_set' = TRUE
    /\ TOKEN' = result[c]
    /\ ret' = [ret EXCEPT ![c] = result[c].iam_token]
    /\ pc' = [pc EXCEPT ![c] = "returned"]
    /\ UNCHANGED <<now, lock_writer, result, exchanges, ticks,
                   calls, seen, call_exchanges, prev_call, published, issued>>
    /\ UNCHANGED outsideAuth

\* variant of InitSet: the fetched token is returned without being stored
InitSet_no_store(c) ==
    /\ pc[c] = "init_set"
    /\ ret' = [ret EXCEPT ![c] = result[c].iam_token]
    /\ pc' = [pc EXCEPT ![c] = "returned"]
    /\ UNCHANGED <<now, TOKEN_set, TOKEN, lock_writer, result, exchanges,
                   ticks, calls, seen, call_exchanges, prev_call, published,
                   issued>>
    /\ UNCHANGED outsideAuth

\* `let _ = TOKEN.set(RwLock::new(result)); token`: the OnceCell keeps the
\* first value set, a later set is an Err that is ignored
InitSet(c) ==
    /\ pc[c] = "init_set"
    /\ IF TOKEN_set
       THEN UNCHANGED <<TOKEN_set, TOKEN>>
       ELSE /\ TOKEN_set' = TRUE
            /\ TOKEN' = result[c]
    /\ ret' = [ret EXCEPT ![c] = result[c].iam_token]
    /\ pc' = [pc EXCEPT ![c] = "returned"]
    /\ UNCHANGED <<now, lock_writer, result, exchanges, ticks,
                   calls, seen, call_exchanges, prev_call, published, issued>>
    /\ UNCHANGED outsideAuth

\* time passes
Tick(d) ==
    /\ ticks < MaxTicks
    /\ ticks' = ticks + 1
    /\ now' = now + d
    /\ UNCHANGED <<TOKEN_set, TOKEN, lock_writer, pc, result, ret,
                   exchanges, calls, seen, call_exchanges, prev_call, published, issued>>
    /\ UNCHANGED outsideAuth

\* ========================================================================
\* A second session beside the first: another call of streaming_recognize
\* (streaming_stt.rs); it owns its own channels, request stream and task
\* ========================================================================
\* no second session
InitPeerAbsent ==
    /\ peer_task = "absent"
    /\ peer_stream = "start"
    /\ peer_audio_queue = <<>>
    /\ peer_audio_sender = FALSE
    /\ peer_result_queue = <<>>
    /\ peer_result_sender = FALSE
    /\ peer_wire = <<>>
    /\ peer_write_closed = FALSE
    /\ peer_net_in = <<>>
    /\ peer_net_end = "connecting"
    /\ peer_enqueued = <<>>
    /\ peer_server_sent = <<>>
    /\ peer_delivered = <<>>
    /\ peer_result_closed = FALSE

\* the second call of streaming_recognize(None) has returned its channels
InitPeer ==
    /\ peer_task = "spawned"
    /\ peer_stream = "start"
    /\ peer_audio_queue = <<>>
    /\ peer_audio_sender = TRUE
    /\ peer_result_queue = <<>>
    /\ peer_result_sender = TRUE
    /\ peer_wire = <<>>
    /\ peer_write_closed = FALSE
    /\ peer_net_in = <<>>
    /\ peer_net_end = "connecting"
    /\ peer_enqueued = <<>>
    /\ peer_server_sent = <<>>
    /\ peer_delivered = <<>>
    /\ peer_result_closed = FALSE

PeerReceiverAlive == peer_stream \in {"start", "loop"}

PeerStreamPolled == peer_task \notin {"absent", "spawned"} /\ PeerReceiverAlive

\* audio_sender.send(frame) of the second session
PeerPush(f) ==
    /\ peer_audio_sender
    /\ Len(peer_enqueued) < MaxPeerFrames
    /\ PeerReceiverAlive
    /\ peer_audio_queue' = ChanSend(peer_audio_queue, f)
    /\ peer_enqueued' = Append(peer_enqueued, f)
    /\ UNCHANGED <<peer_task, peer_stream, peer_audio_sender,
                   peer_result_queue, peer_result_sender, peer_wire,
                   peer_write_closed, peer_net_in, peer_net_end,
                   peer_server_sent, peer_delivered, peer_result_closed>>
    /\ UNCHANGED outsidePeer

\* drop(audio_sender) of the second session
PeerCloseSink ==
    /\ peer_audio_sender
    /\ peer_audio_sender' = FALSE
    /\ UNCHANGED <<peer_task, peer_stream, peer_audio_queue,
                   peer_result_queue, peer_result_sender, peer_wire,
                   peer_write_closed, peer_net_in, peer_net_end, peer_enqueued,
                   peer_server_sent, peer_delivered, peer_result_closed>>
    /\ UNCHANGED outsidePeer

\* result_receiver.recv().await of the second session
PeerRecv ==
    /\ peer_task # "absent"
    /\ ~peer_result_closed
    /\ LET r == ChanRecv(peer_result_queue, peer_result_sender) IN
       /\ r # "pending"
       /\ IF r = "item"
          THEN /\ peer_delivered' = Append(peer_delivered,
                                           Head(peer_result_queue))
               /\ peer_result_queue' = Tail(peer_result_queue)
               /\ UNCHANGED peer_result_closed
          ELSE /\ peer_result_closed' = TRUE
               /\ UNCHANGED <<peer_delivered, peer_result_queue>>
    /\ UNCHANGED <<peer_task, peer_stream, peer_audio_queue, peer_audio_sender,
                   peer_result_sender, peer_wire, peer_write_closed,
                   peer_net_in, peer_net_end, peer_enqueued, peer_server_sent>>
    /\ UNCHANGED outsidePeer

\* the request stream of the second session: yield config
PeerStreamYieldConfig ==
    /\ PeerStreamPolled
    /\ peer_stream = "start"
    /\ peer_wire' = Append(peer_wire, ConfigRequest(default_config))
    /\ peer_stream' = "loop"
    /\ UNCHANGED <<peer_task, peer_audio_queue, peer_audio_sender,
                   peer_result_queue, peer_result_sender, peer_write_closed,
                   peer_net_in, peer_net_end, peer_enqueued, peer_server_sent,
                   peer_delivered, peer_result_closed>>
    /\ UNCHANGED outsidePeer

\* the request stream of the second session: yield audio
PeerStreamYieldAudio ==
    /\ PeerStreamPolled
    /\ peer_stream = "loop"
    /\ ChanRecv(peer_audio_queue, peer_audio_sender) = "item"
    /\ peer_wire' = Append(peer_wire, AudioRequest(Head(peer_audio_queue)))
    /\ peer_audio_queue' = Tail(peer_audio_queue)
    /\ UNCHANGED <<peer_task, peer_stream, peer_audio_sender,
                   peer_result_queue, peer_result_sender, peer_write_closed,
                   peer_net_in, peer_net_end, peer_enqueued, peer_server_sent,
                   peer_delivered, peer_result_closed>>
    /\ UNCHANGED outsidePeer

\* the request stream of the second session ends
PeerStreamEnd ==
    /\ PeerStreamPolled
    /\ peer_stream = "loop"
    /\ ChanRecv(peer_audio_queue, peer_audio_sender) = "none"
    /\ peer_stream' = "ended"
    /\ peer_write_closed' = TRUE
    /\ UNCHANGED <<peer_task, peer_audio_queue, peer_audio_sender,
                   peer_result_queue, peer_result_sender, peer_wire,
                   peer_net_in, peer_net_end, peer_enqueued, peer_server_sent,
                   peer_delivered, peer_result_closed>>
    /\ UNCHANGED outsidePeer

\* the service sends one response on the stream of the second session
PeerServerSend(e) ==
    /\ peer_net_end = "open"
    /\ Len(peer_server_sent) < MaxPeerEvents
    /\ peer_net_in' = Append(peer_net_in, e)
    /\ peer_server_sent' = Append(peer_server_sent, e)
    /\ UNCHANGED <<peer_task, peer_stream, peer_audio_queue, peer_audio_sender,
                   peer_result_queue, peer_result_sender, peer_wire,
                   peer_write_closed, peer_net_end, peer_enqueued,
                   peer_delivered, peer_result_closed>>
    /\ UNCHANGED outsidePeer

\* the service closes its side of the stream of the second session
PeerServerClose ==
    /\ peer_net_end = "open"
    /\ peer_net_end' = "closed"
    /\ UNCHANGED <<peer_task, peer_stream, peer_audio_queue, peer_audio_sender,
                   peer_result_queue, peer_result_sender, peer_wire,
                   peer_write_closed, peer_net_in, peer_enqueued,
                   peer_server_sent, peer_delivered, peer_result_closed>>
    /\ UNCHANGED outsidePeer

\* first poll of the task of the second session
PeerTaskStart ==
    /\ peer_task = "spawned"
    /\ peer_task' = "handshake"
    /\ UNCHANGED <<peer_stream, peer_audio_queue, peer_audio_sender,
                   peer_result_queue, peer_result_sender, peer_wire,
                   peer_write_closed, peer_net_in, peer_net_end, peer_enqueued,
                   peer_server_sent, peer_delivered, peer_result_closed>>
    /\ UNCHANGED outsidePeer

\* the call of the second session is answered
PeerHandshakeOk ==
    /\ peer_task = "handshake"
    /\ peer_net_end = "connecting"
    /\ peer_task' = "recv"
    /\ peer_net_end' = "open"
    /\ UNCHANGED <<peer_stream, peer_audio_queue, peer_audio_sender,
                   peer_result_queue, peer_result_sender, peer_wire,
                   peer_write_closed, peer_net_in, peer_enqueued,
                   peer_server_sent, peer_delivered, peer_result_closed>>
    /\ UNCHANGED outsidePeer

\* the task of the second session forwards one response
PeerRecvMessage ==
    /\ peer_task = "recv"
    /\ peer_net_in # <<>>
    /\ peer_result_queue' = ChanSend(peer_result_queue, Head(peer_net_in))
    /\ peer_net_in' = Tail(peer_net_in)
    /\ UNCHANGED <<peer_task, peer_stream, peer_audio_queue, peer_audio_sender,
                   peer_result_sender, peer_wire, peer_write_closed,
                   peer_net_end, peer_enqueued, peer_server_sent,
                   peer_delivered, peer_result_closed>>
    /\ UNCHANGED outsidePeer

\* the task of the second session returns
PeerRecvEnd ==
    /\ peer_task = "recv"
    /\ peer_net_in = <<>>
    /\ peer_net_end = "closed"
    /\ peer_task' = "done"
    /\ peer_result_sender' = FALSE
    /\ peer_stream' = StreamAfterTaskEnd(peer_stream)
    /\ UNCHANGED <<peer_audio_queue, peer_audio_sender, peer_result_queue,
                   peer_wire, peer_write_closed, peer_net_in, peer_net_end,
                   peer_enqueued, peer_server_sent, peer_delivered,
                   peer_result_closed>>
    /\ UNCHANGED outsidePeer

\* the state once initialize_auth has run (RpcBuilder::new awaits it before
\* any service is built): the first call of get_auth_token has stored its
\* token
InitAuthCached ==
    LET first == CHOOSE c \in Callers : \A d \in Callers : c <= d
        life == CHOOSE l \in Lifetimes : TRUE
        token == [iam_token |-> 1, expires_at |-> life]
    IN /\ now = 0
       /\ TOKEN_set = TRUE
       /\ TOKEN = token
       /\ lock_writer = 0
       /\ pc = [c \in Callers |-> IF c = first THEN "returned" ELSE "idle"]
       /\ result = [c \in Callers |-> IF c = first THEN token ELSE NoResult]
       /\ ret = [c \in Callers |-> IF c = first THEN 1 ELSE 0]
       /\ exchanges = 1
       /\ ticks = 0
       /\ calls = [c \in Callers |-> IF c = first THEN 1 ELSE 0]
       /\ seen = [c \in Callers |-> NotSeen]
       /\ call_exchanges = [c \in Callers |-> IF c = first THEN 1 ELSE 0]
       /\ prev_call = [c \in Callers |-> [seen |-> NotSeen, exchanges |-> 0]]
       /\ published = [c \in Callers |-> NoResult]
       /\ issued = <<life>>

\* ========================================================================
\* Spreadsheet value update: update (spreadsheets.rs)
\* ========================================================================
\* Option<T>: <<>> is None, <<v>> is Some(v)
OptionOf(S) == {<<>>} \cup {<<v>> : v \in S}

\* Option::unwrap_or_default
UnwrapOrDefault(o, d) == IF o = <<>> THEN d ELSE o[1]

ValueInputOption == {"Raw", "UserEntered"}
ValueRenderOption == {"FormattedValue", "UnformattedValue", "Formula"}
DateTimeRenderOption == {"SerialNumber", "FormattedString"}

\* impl Default for ValueInputOption
Default_ValueInputOption == "UserEntered"
\* impl Default for ValueRenderOption
Default_ValueRenderOption == "FormattedValue"
\* impl Default for DateTimeRenderOption
Default_DateTimeRenderOption == "FormattedString"
\* bool::default()
Default_bool == FALSE

\* impl Display for ValueInputOption
Display_ValueInputOption(v) ==
    IF v = "Raw" THEN "RAW" ELSE "USER_ENTERED"

\* impl Display for ValueRenderOption
Display_ValueRenderOption(v) ==
    CASE v = "FormattedValue" -> "FORMATTED_VALUE"
      [] v = "UnformattedValue" -> "UNFORMATTED_VALUE"
      [] v = "Formula" -> "FORMULA"

\* impl Display for DateTimeRenderOption
Display_DateTimeRenderOption(v) ==
    IF v = "SerialNumber" THEN "SERIAL_NUMBER" ELSE "FORMATTED_STRING"

\* bool::to_string
Display_bool(b) == IF b THEN "true" ELSE "false"

\* the option fields of UpdateParams
UpdateParams ==
    [value_input_option : OptionOf(ValueInputOption),
     include_values_in_response : OptionOf(BOOLEAN),
     response_value_render_option : OptionOf(ValueRenderOption),
     response_date_time_render_option : OptionOf(DateTimeRenderOption)]

NoUpdateParams ==
    [value_input_option |-> <<>>,
     include_values_in_response |-> <<>>,
     response_value_render_option |-> <<>>,
     response_date_time_render_option |-> <<>>]

\* the query parameters update() builds, in the order pushed
QueryParams(params) ==
    << <<"valueInputOption",
         Display_ValueInputOption(
             UnwrapOrDefault(params.value_input_option,
                             Default_ValueInputOption))>>,
       <<"includeValuesInResponse",
         Display_bool(
             UnwrapOrDefault(params.include_values_in_response,
                             Default_bool))>>,
       <<"responseDateTimeRenderOption",
         Display_DateTimeRenderOption(
             UnwrapOrDefault(params.response_date_time_render_option,
                             Default_DateTimeRenderOption))>>,
       <<"responseValueRenderOption",
         Display_ValueRenderOption(
             UnwrapOrDefault(params.response_value_render_option,
                             Default_ValueRenderOption))>>,
       <<"alt", "json">> >>

\* the values a query carries for a name
QueryValues(query, name) ==
    {query[i][2] : i \in {j \in 1..Len(query) : query[j][1] = name}}

\* no update is being made
InitSheetsIdle ==
    /\ update_params = NoUpdateParams
    /\ update_sent = <<>>

\* a caller is about to call update(params), with any choice of options
InitSheets ==
    /\ update_params \in UpdateParams
    /\ update_sent = <<>>

\* update(params): the query is built from the options and the PUT request
\* is sent (the path and the body are the caller's spreadsheet_id, range and
\* values as given)
Update ==
    /\ update_sent = <<>>
    /\ update_sent' = <<[method |-> "PUT",
                         query |-> QueryParams(update_params)]>>
    /\ UNCHANGED update_params
    /\ UNCHANGED outsideSheets

\* ========================================================================
\* The start of a session (streaming_stt.rs 15-31 and 50-74): initialize
\* fills SERVICE; streaming_recognize takes the instance out of SERVICE,
\* awaits get_auth_token and moves the token into the interceptor of the
\* client it builds, then builds the channels and spawns the task.
\* Each caller of get_auth_token is here one call of streaming_recognize;
\* the session of the first caller is the one followed.
\* ========================================================================
Inits == 1..MaxInits

\* the call whose session is followed
FirstCaller == CHOOSE c \in Callers : \A d \in Callers : c <= d

\* the start of the session is not followed
InitStartIdle ==
    /\ SERVICE = 0
    /\ init_pc = [i \in Inits |-> "idle"]
    /\ rec_pc = [c \in Callers |-> "idle"]
    /\ rec_service = [c \in Callers |-> 0]
    /\ session_token = 0
    /\ request_token = 0

\* the first call of initialize has returned
InitServiceReady ==
    /\ SERVICE = 1
    /\ init_pc = [i \in Inits |-> IF i = 1 THEN "done" ELSE "idle"]
    /\ rec_pc = [c \in Callers |-> "idle"]
    /\ rec_service = [c \in Callers |-> 0]
    /\ session_token = 0
    /\ request_token = 0

\* initialize_streaming_stt takes the builder and gives it back: a call of
\* initialize starts when the one before it has returned
BuilderAt(i) == IF i = 1 THEN TRUE ELSE init_pc[i - 1] = "done"

\* Channel::from_shared(..).tls_config(..).connect().await is Ok: `inner` is
\* built; the instance built by call i is named i
InitializeConnect(i) ==
    /\ init_pc[i] = "idle"
    /\ BuilderAt(i)
    /\ init_pc' = [init_pc EXCEPT ![i] = "connected"]
    /\ UNCHANGED <<SERVICE, rec_pc, rec_service, session_token>>
    /\ UNCHANGED outsideStart

\* one of the three unwrap() of lines 19-25 panics
InitializeConnectFail(i) ==
    /\ init_pc[i] = "idle"
    /\ BuilderAt(i)
    /\ init_pc' = [init_pc EXCEPT ![i] = "panicked"]
    /\ UNCHANGED <<SERVICE, rec_pc, rec_service, session_token>>
    /\ UNCHANGED outsideStart

\* variant of InitializeSet: the instance replaces the one stored
InitializeSet_replace(i) ==
    /\ init_pc[i] = "connected"
    /\ SERVICE' = i
    /\ init_pc' = [init_pc EXCEPT ![i] = "done"]
    /\ UNCHANGED <<rec_pc, rec_service, session_token>>
    /\ UNCHANGED outsideStart

\* `if SERVICE.set(inner).is_err() { panic!("Already initialized ..") }`
InitializeSet(i) ==
    /\ init_pc[i] = "connected"
    /\ IF SERVICE = 0
       THEN /\ SERVICE' = i
            /\ init_pc' = [init_pc EXCEPT ![i] = "done"]
       ELSE /\ UNCHANGED SERVICE
            /\ init_pc' = [init_pc EXCEPT ![i] = "already_initialized"]
    /\ UNCHANGED <<rec_pc, rec_service, session_token>>
    /\ UNCHANGED outsideStart

\* `let stt = SERVICE.get().unwrap()`: the instance stored, or a panic of
\* the caller while SERVICE is empty
RecognizeGetService(c) ==
    /\ rec_pc[c] = "idle"
    /\ IF SERVICE = 0
       THEN /\ rec_pc' = [rec_pc EXCEPT ![c] = "panicked"]
            /\ UNCHANGED rec_service
       ELSE /\ rec_pc' = [rec_pc EXCEPT ![c] = "auth"]
            /\ rec_service' = [rec_service EXCEPT ![c] = SERVICE]
    /\ UNCHANGED <<SERVICE, init_pc, session_token>>
    /\ UNCHANGED outsideStart

\* `super::auth::get_auth_token().await` is entered
RecognizeToken(c) ==
    /\ rec_pc[c] = "auth"
    /\ pc[c] \in {"idle", "returned"}
    /\ seen[c] = NotSeen
    /\ StartCall(c)

\* get_auth_token panicked: the panic is the caller's
RecognizeAuthPanic(c) ==
    /\ rec_pc[c] = "auth"
    /\ pc[c] = "panicked"
    /\ rec_pc' = [rec_pc EXCEPT ![c] = "panicked"]
    /\ UNCHANGED <<SERVICE, init_pc, rec_service, session_token>>
    /\ UNCHANGED outsideStart

\* get_auth_token returned: the token is moved into the interceptor
\* (lines 64-74), the channels and the request stream are built, the task is
\* spawned and (audio_sender, result_receiver) is returned (lines 76-105)
RecognizeOpen(c) ==
    /\ rec_pc[c] = "auth"
    /\ pc[c] = "returned"
    /\ seen[c] # NotSeen
    /\ rec_pc' = [rec_pc EXCEPT ![c] = "returned"]
    /\ session_token' = IF c = FirstCaller THEN ret[c] ELSE session_token
    /\ UNCHANGED <<SERVICE, init_pc, rec_service>>
    /\ UNCHANGED outsideStart

\* the first call of streaming_recognize has returned its channels
SessionOpen == rec_pc[FirstCaller] = "returned"

\* ========================================================================
\* The business counter (business.rs; health.rs holds the same static, token
\* type and impls in its module `business`, lines 27-52) and the health
\* report (health.rs 12-17). One counter is followed; fetch_add and fetch_sub
\* are SeqCst read-modify-write operations, each one step.
\* ========================================================================
Threads == 1..NumThreads

\* what fetch_sub leaves in a usize that held 0: usize::MAX, written -1 here
Wrapped == -1

\* Lazy::new(|| Arc::new(AtomicUsize::new(0))); no token, no report
InitBusy ==
    /\ BUSINESS_COUNTER = 0
    /\ made = [t \in Threads |-> 0]
    /\ held = [t \in Threads |-> 0]
    /\ health_report = <<>>

\* a new counter value that leaves new() out of the count
fetch_add_skipped(v) == v

\* AtomicUsize::fetch_add(1)
fetch_add(v) == IF v = Wrapped THEN 0 ELSE v + 1

\* AtomicUsize::fetch_sub(1)
fetch_sub(v) == IF v = 0 THEN Wrapped ELSE v - 1

\* BusinessToken values alive
RECURSIVE AliveUpTo(_)
AliveUpTo(n) == IF n = 0 THEN 0 ELSE held[n] + AliveUpTo(n - 1)
Alive == AliveUpTo(NumThreads)

\* BusinessToken::new(), also reached through default() and busy()
BusinessToken_new(t) ==
    /\ made[t] < MaxTokens
    /\ BUSINESS_COUNTER' = fetch_add(BUSINESS_COUNTER)
    /\ made' = [made EXCEPT ![t] = @ + 1]
    /\ held' = [held EXCEPT ![t] = @ + 1]
    /\ UNCHANGED health_report
    /\ UNCHANGED outsideBusy

\* a BusinessToken goes out of scope: Drop::drop
BusinessToken_drop(t) ==
    /\ held[t] > 0
    /\ BUSINESS_COUNTER' = fetch_sub(BUSINESS_COUNTER)
    /\ held' = [held EXCEPT ![t] = @ - 1]
    /\ UNCHANGED <<made, health_report>>
    /\ UNCHANGED outsideBusy

\* is_busy() of business.rs
is_busy == BUSINESS_COUNTER = 0

\* business::is_busy() of health.rs
business_is_busy == BUSINESS_COUNTER # 0

\* health(): the report is built from business::is_busy()
health ==
    /\ health_report' = <<[is_busy |-> business_is_busy, alive |-> Alive]>>
    /\ UNCHANGED <<BUSINESS_COUNTER, made, held>>
    /\ UNCHANGED outsideBusy

\* ========================================================================
\* The remote log queue (logging/mod.rs 33-53 and 286-321, write_log of
\* google/logging/google.rs 146-173), GOOGLE_LOGGING_ENABLED being "true".
\* The lock of LOGGER_QUEUE is held across steps only by the flusher, between
\* lock().await and the end of the drain statement; a push takes the lock,
\* appends and releases it without an await in between.
\* ========================================================================
Entries == 1..MaxEntries

\* the entries of a sequence of batches, in order
RECURSIVE Flatten(_)
Flatten(bs) == IF bs = <<>> THEN <<>> ELSE Head(bs) \o Flatten(Tail(bs))

\* in how many batches handed to write_log entry e is
RECURSIVE TimesSent(_, _)
TimesSent(e, bs) ==
    IF bs = <<>> THEN 0
    ELSE (IF \E i \in 1..Len(Head(bs)) : Head(bs)[i] = e THEN 1 ELSE 0)
         + TimesSent(e, Tail(bs))

\* LOGGER_QUEUE has not been touched: the lazy_static is not built, there is
\* no flusher task
InitLog ==
    /\ LOGGER_QUEUE = <<>>
    /\ flusher = "absent"
    /\ batch = <<>>
    /\ spawned = {}
    /\ pushed = 0
    /\ sent = <<>>
    /\ last_result = "none"

\* the lock is out
LockHeld == flusher = "locked"

\* build_and_push: the entry is built; the first use of LOGGER_QUEUE builds
\* the Mutex and spawns the flusher; try_lock() is Ok and the entry is
\* appended, or it is Err and the append is left to a spawned task
build_and_push ==
    /\ pushed < MaxEntries
    /\ pushed' = pushed + 1
    /\ flusher' = IF flusher = "absent" THEN "delay" ELSE flusher
    /\ IF LockHeld
       THEN /\ spawned' = spawned \cup {pushed + 1}
            /\ UNCHANGED LOGGER_QUEUE
       ELSE /\ LOGGER_QUEUE' = Append(LOGGER_QUEUE, pushed + 1)
            /\ UNCHANGED spawned
    /\ UNCHANGED <<batch, sent, last_result>>
    /\ UNCHANGED outsideLog

\* the spawned task: LOGGER_QUEUE.lock().await.push(entry)
SpawnedPush(e) ==
    /\ e \in spawned
    /\ ~LockHeld
    /\ LOGGER_QUEUE' = Append(LOGGER_QUEUE, e)
    /\ spawned' = spawned \ {e}
    /\ UNCHANGED <<flusher, batch, pushed, sent, last_result>>
    /\ UNCHANGED outsideLog

\* the flusher: delay_for(5 s) is over and LOGGER_QUEUE.lock().await returns
FlusherLock ==
    /\ flusher = "delay"
    /\ flusher' = "locked"
    /\ UNCHANGED <<LOGGER_QUEUE, batch, spawned, pushed, sent, last_result>>
    /\ UNCHANGED outsideLog

\* variant of FlusherDrain: the batch is a copy, the queue keeps its content
FlusherDrain_copy ==
    /\ flusher = "locked"
    /\ batch' = LOGGER_QUEUE
    /\ sent' = IF LOGGER_QUEUE = <<>> THEN sent ELSE Append(sent, LOGGER_QUEUE)
    /\ flusher' = "writing"
    /\ UNCHANGED <<LOGGER_QUEUE, spawned, pushed, last_result>>
    /\ UNCHANGED outsideLog

\* the flusher: .drain(..).collect() takes the whole content, the guard is
\* dropped at the end of the statement and write_log is called with it
FlusherDrain ==
    /\ flusher = "locked"
    /\ batch' = LOGGER_QUEUE
    /\ LOGGER_QUEUE' = <<>>
    /\ sent' = IF LOGGER_QUEUE = <<>> THEN sent ELSE Append(sent, LOGGER_QUEUE)
    /\ flusher' = "writing"
    /\ UNCHANGED <<spawned, pushed, last_result>>
    /\ UNCHANGED outsideLog

\* write_log returns Ok(())
WriteOk ==
    /\ flusher = "writing"
    /\ flusher' = "delay"
    /\ batch' = <<>>
    /\ last_result' = "ok"
    /\ UNCHANGED <<LOGGER_QUEUE, spawned, pushed, sent>>
    /\ UNCHANGED outsideLog

\* write_log returns Err(status): write_log_entries failed; the flusher
\* prints "[GOOGLE LOGGER] Failed to write log" and loops
WriteErr ==
    /\ flusher = "writing"
    /\ flusher' = "delay"
    /\ batch' = <<>>
    /\ last_result' = "err"
    /\ UNCHANGED <<LOGGER_QUEUE, spawned, pushed, sent>>
    /\ UNCHANGED outsideLog

\* write_log panics: logger.auth.token(SCOPES).await.unwrap() on a token
\* error (google.rs 158), or SERVICE.get().unwrap() (147); the panic is the
\* flusher task's, which ends with the batch it held
WritePanic ==
    /\ flusher = "writing"
    /\ flusher' = "panicked"
    /\ batch' = <<>>
    /\ UNCHANGED <<LOGGER_QUEUE, spawned, pushed, sent, last_result>>
    /\ UNCHANGED outsideLog

\* ------------------------------------------------------------------------
Init ==
    /\ InitSession /\ InitAuth /\ InitSheetsIdle /\ InitPeerAbsent
    /\ InitStartIdle
    /\ InitBusy
    /\ InitLog

Next ==
    \/ \E f \in Frames : CallerPush(f)
    \/ CallerPushFail
    \/ CallerCloseSink
    \/ CallerRecv
    \/ CallerDropResult
    \/ StreamYieldConfig
    \/ StreamYieldAudio
    \/ StreamEnd
    \/ \E e \in Events : ServerSend(e)
    \/ ServerClose
    \/ \E b \in BOOLEAN : NetError(b)
    \/ TaskStart
    \/ HandshakeOk
    \/ HandshakeFail
    \/ RecvMessage
    \/ RecvSendFail
    \/ RecvEnd
    \/ RecvError

Spec == Init /\ [][Next]_vars

\* a session without failure: the call is answered, the network does not
\* break, and the caller keeps the ResultSource and reads it until it closes
NextDrain ==
    \/ \E f \in Frames : CallerPush(f)
    \/ CallerPushFail
    \/ CallerCloseSink
    \/ CallerRecv
    \/ StreamYieldConfig
    \/ StreamYieldAudio
    \/ StreamEnd
    \/ \E e \in Events : ServerSend(e)
    \/ ServerClose
    \/ TaskStart
    \/ HandshakeOk
    \/ RecvMessage
    \/ RecvEnd

\* the runtime keeps polling the spawned task, the transport keeps polling
\* the request stream while the call lives, the call is answered, and the
\* caller keeps awaiting recv()
FairDrain ==
    /\ WF_vars(TaskStart)
    /\ WF_vars(HandshakeOk)
    /\ WF_vars(RecvMessage)
    /\ WF_vars(RecvEnd)
    /\ WF_vars(StreamYieldConfig)
    /\ WF_vars(StreamYieldAudio)
    /\ WF_vars(StreamEnd)
    /\ WF_vars(CallerRecv)

SpecDrain == Init /\ [][NextDrain]_vars /\ FairDrain

\* the token cache on its own: no session is running
InitTokenCache ==
    /\ InitAuth
    /\ InitStartIdle
    /\ InitBusy
    /\ InitLog
    /\ InitSession /\ config = default_config
    /\ InitSheetsIdle
    /\ InitPeerAbsent

NextAuth ==
    \/ \E c \in Callers : StartCall(c)
    \/ \E c \in Callers : ReadToken(c)
    \/ \E c \in Callers, life \in Lifetimes : Exchange(c, life)
    \/ \E c \in Callers : ExchangeFail(c)
    \/ \E c \in Callers : AcquireWrite(c)
    \/ \E c \in Callers : StoreToken(c)
    \/ \E c \in Callers : StoreExpiry(c)
    \/ \E c \in Callers : InitSet(c)
    \/ \E d \in TickSteps : Tick(d)

SpecAuth == InitTokenCache /\ [][NextAuth]_vars

\* one call of update on its own
InitUpdateCall ==
    /\ InitSheets
    /\ InitStartIdle
    /\ InitBusy
    /\ InitLog
    /\ InitAuth
    /\ InitSession /\ config = default_config
    /\ InitPeerAbsent

NextSheets == Update

SpecSheets == InitUpdateCall /\ [][NextSheets]_vars

\* two sessions side by side, after initialize_auth; the first one carries
\* no audio and no response and may fail at any point, the second one
\* carries audio and responses and does not fail
InitPair ==
    /\ InitSession /\ InitPeer /\ InitAuthCached /\ InitSheetsIdle
    /\ InitStartIdle
    /\ InitBusy
    /\ InitLog

NextPair ==
    \/ CallerPushFail
    \/ CallerCloseSink
    \/ CallerRecv
    \/ CallerDropResult
    \/ StreamYieldConfig
    \/ StreamEnd
    \/ ServerClose
    \/ \E b \in BOOLEAN : NetError(b)
    \/ TaskStart
    \/ HandshakeOk
    \/ HandshakeFail
    \/ RecvEnd
    \/ RecvError
    \/ \E f \in Frames : PeerPush(f)
    \/ PeerCloseSink
    \/ PeerRecv
    \/ PeerStreamYieldConfig
    \/ PeerStreamYieldAudio
    \/ PeerStreamEnd
    \/ \E e \in Events : PeerServerSend(e)
    \/ PeerServerClose
    \/ PeerTaskStart
    \/ PeerHandshakeOk
    \/ PeerRecvMessage
    \/ PeerRecvEnd

SpecPair == InitPair /\ [][NextPair]_vars

\* ------------------------------------------------------------------------
\* The service handle: RpcBuilder::new has returned (initialize_auth has
\* stored the first token, which stays valid), initialize and
\* streaming_recognize are called.
\* ------------------------------------------------------------------------
InitService ==
    /\ InitSession /\ config = default_config
    /\ InitAuthCached
    /\ InitSheetsIdle
    /\ InitPeerAbsent
    /\ InitStartIdle
    /\ InitBusy
    /\ InitLog

NextService ==
    \/ \E i \in Inits : InitializeConnect(i)
    \/ \E i \in Inits : InitializeConnectFail(i)
    \/ \E i \in Inits : InitializeSet(i)
    \/ \E c \in Callers : RecognizeGetService(c)
    \/ \E c \in Callers : RecognizeToken(c)
    \/ \E c \in Callers : ReadToken(c)
    \/ \E c \in Callers : RecognizeOpen(c)

SpecService == InitService /\ [][NextService]_vars

\* ------------------------------------------------------------------------
\* The start of a session: initialize has stored its instance,
\* streaming_recognize is called while time passes and the cached token is
\* refreshed. The session of the first call is followed up to the answer
\* to its call.
\* ------------------------------------------------------------------------
InitStart ==
    /\ InitSession /\ config = default_config
    /\ InitAuthCached
    /\ InitSheetsIdle
    /\ InitPeerAbsent
    /\ InitServiceReady
    /\ InitBusy
    /\ InitLog

NextStart ==
    \/ \E c \in Callers : RecognizeGetService(c)
    \/ \E c \in Callers : RecognizeToken(c)
    \/ \E c \in Callers : RecognizeAuthPanic(c)
    \/ \E c \in Callers : RecognizeOpen(c)
    \/ \E c \in Callers : ReadToken(c)
    \/ \E c \in Callers, life \in Lifetimes : Exchange(c, life)
    \/ \E c \in Callers : ExchangeFail(c)
    \/ \E c \in Callers : AcquireWrite(c)
    \/ \E c \in Callers : StoreToken(c)
    \/ \E c \in Callers : StoreExpiry(c)
    \/ \E d \in TickSteps : Tick(d)
    \/ SessionOpen /\ TaskStart
    \/ SessionOpen /\ HandshakeOk
    \/ SessionOpen /\ HandshakeFail

SpecStart == InitStart /\ [][NextStart]_vars

\* ------------------------------------------------------------------------
\* Threads creating and dropping BusinessToken values while health reports
\* are taken
\* ------------------------------------------------------------------------
InitBusiness ==
    /\ InitBusy
    /\ InitLog
    /\ InitSession /\ config = default_config
    /\ InitAuth
    /\ InitSheetsIdle
    /\ InitPeerAbsent
    /\ InitStartIdle

NextBusy ==
    \/ \E t \in Threads : BusinessToken_new(t)
    \/ \E t \in Threads : BusinessToken_drop(t)
    \/ health

SpecBusy == InitBusiness /\ [][NextBusy]_vars

\* ------------------------------------------------------------------------
\* The log queue: entries are pushed while the flusher runs its rounds
\* ------------------------------------------------------------------------
InitLogging ==
    /\ InitLog
    /\ InitBusy
    /\ InitSession /\ config = default_config
    /\ InitAuth
    /\ InitSheetsIdle
    /\ InitPeerAbsent
    /\ InitStartIdle

NextLog ==
    \/ build_and_push
    \/ \E e \in Entries : SpawnedPush(e)
    \/ FlusherLock
    \/ FlusherDrain
    \/ WriteOk
    \/ WriteErr
    \/ WritePanic

SpecLog == InitLogging /\ [][NextLog]_vars

\* the runtime keeps polling the flusher task and the spawned tasks; the
\* timer fires; a write_log call ends one way or another; the Mutex hands
\* the lock to its waiters in order, so a waiting push is not passed over
\* for ever
FairLog ==
    /\ WF_vars(FlusherLock)
    /\ WF_vars(FlusherDrain)
    /\ WF_vars(WriteOk \/ WriteErr \/ WritePanic)
    /\ \A e \in Entries : SF_vars(SpawnedPush(e))

SpecLogFair == InitLogging /\ [][NextLog]_vars /\ FairLog

\* ========================================================================
\* Claims about the session (checked under Spec)
\* ========================================================================

\* C1: the first message written to the network stream is the configuration
\* message of the session and the stream carries exactly one configuration
\* message, however many frames were queued when the stream was first polled.
C1_ConfigFirstOnce ==
    /\ ConfigCount(wire) <= 1
    /\ wire # <<>> => (Head(wire) = ConfigRequest(config) /\ ConfigCount(wire) = 1)
    /\ stream \in {"loop", "ended"} => wire # <<>>

\* frames were queued before the first poll and have been written after the config
C1_Witness ==
    /\ backlog_at_poll
    /\ Len(wire) >= 3
    /\ Head(wire) = ConfigRequest(config)

\* C2: the audio messages on the network stream are, in order, the frames
\* the caller enqueued (the k-th audio message is the k-th enqueued frame).
C2_FifoOrder == IsPrefix(AudioOf(wire), enqueued)

\* two different frames have been written while responses were being relayed
C2_Witness ==
    /\ Len(AudioOf(wire)) >= 2
    /\ AudioOf(wire)[1] # AudioOf(wire)[2]
    /\ received # <<>>

\* C3: the request stream ends (write-half closed) only when the queue is
\* empty: every frame enqueued before the close has then been written.
C3_Drain == write_closed => (audio_queue = <<>> /\ AudioOf(wire) = enqueued)

\* the sink was closed with every frame still queued, and the stream then
\* drained them and ended
C3_Witness ==
    /\ write_closed
    /\ closed_with >= 2
    /\ closed_with = Len(enqueued)
    /\ net_end # "error"

\* the item the result channel would carry if errors were reported in-band;
\* it is not a StreamingRecognitionResponse the service sends
ErrorMarker == "error_marker"

\* C4 as stated: after a mid-session stream error the caller reads exactly
\* one error marker, as the last item before the ResultSource reports closed.
C4_ErrorMarkerDelivered ==
    (exit_cause = "stream" /\ result_closed) =>
        (/\ Count(delivered, ErrorMarker) = 1
         /\ delivered[Len(delivered)] = ErrorMarker)

\* C4 amended: after a mid-session stream error the ResultSource is closed
\* (result_sender dropped) and carries no error marker: the caller reads
\* exactly the responses received before the error and then sees the end.
C4_ClosedWithoutMarker ==
    exit_cause = "stream" =>
        /\ task = "panicked"
        /\ ~result_sender
        /\ Count(delivered \o result_queue, ErrorMarker) = 0
        /\ result_receiver => delivered \o result_queue = received
        /\ result_closed => delivered = received

\* a stream error after a response was relayed; the caller has read to the end
C4_Witness ==
    /\ exit_cause = "stream"
    /\ result_closed
    /\ Len(delivered) >= 1

C6_ConnectErrorMarker ==
    (exit_cause = "connect" /\ result_closed) => delivered = <<ErrorMarker>>

\* C6 amended: after a failed handshake the session never receives (never
\* reaches Streaming) and both channels are closed: sends on the AudioSink
\* fail and the ResultSource ends at once, with nothing in it, no error
\* marker included.
C6_ConnectFailureClosesBoth ==
    exit_cause = "connect" =>
        /\ task = "panicked"
        /\ received = <<>>
        /\ ~AudioReceiverAlive
        /\ ~result_sender
        /\ result_queue = <<>>
        /\ delivered = <<>>

\* the handshake failed; the caller saw a failed send and the end of results
C6_Witness ==
    /\ exit_cause = "connect"
    /\ send_failed
    /\ result_closed

\* C7: closing the AudioSink does not stop the receive loop: when the loop
\* ends because the service closed its side, every response the service sent,
\* those sent after the sink was closed included, has been received and
\* pushed to the ResultSource.
C7_ReceiveSurvivesClose ==
    (~audio_sender /\ exit_cause = "eof") =>
        /\ received = server_sent
        /\ net_in = <<>>
        /\ result_closed => delivered = server_sent

\* a response sent after the sink was closed has reached the caller
C7_Witness ==
    /\ ~audio_sender
    /\ write_closed
    /\ sent_after_close
    /\ exit_cause = "eof"
    /\ result_closed
    /\ delivered = server_sent

\* C8: while the caller holds the ResultSource, what it has read followed by
\* what is still queued is exactly the sequence of responses received from
\* the network, which is a prefix of what the service sent.
C8_ResultsAsReceived ==
    /\ IsPrefix(received, server_sent)
    /\ result_receiver => delivered \o result_queue = received

\* two different responses have been read by the caller
C8_Witness ==
    /\ result_receiver
    /\ Len(delivered) >= 2
    /\ delivered[1] # delivered[2]

\* C20: the state of a session never moves back along Connecting,
\* ConfigSent, Streaming, Draining, Closed; in Closed both loops have exited
\* (the request stream is finished or dropped, result_sender is dropped),
\* and no step changes what was written to the stream, received from it or
\* adds to the result channel.
C20_StateOnlyForward ==
    [][/\ StateRank(SessionState') >= StateRank(SessionState)
       /\ SessionState = "Closed" =>
             /\ ~AudioReceiverAlive
             /\ ~result_sender
             /\ SessionState' = "Closed"
             /\ wire' = wire
             /\ write_closed' = write_closed
             /\ received' = received
             /\ Len(result_queue') <= Len(result_queue)]_vars

\* a session went through every state: the config was written before the
\* call was answered, frames and events followed, the AudioSink was closed,
\* the service closed its side, the task has returned; received events
\* still wait in the result channel
C20_Witness ==
    /\ SessionState = "Closed"
    /\ exit_cause = "eof"
    /\ ~audio_sender
    /\ write_closed
    /\ ConfigCount(wire) = 1
    /\ Len(AudioOf(wire)) = MaxFrames
    /\ Len(result_queue) = MaxEvents
    /\ sent_after_close

\* C21 (as stated): once the caller has dropped the ResultSource, no frame
\* enqueued after the drop is written to the network stream.
C21_NoLateFrameWritten ==
    old_queued # -2

\* C21 (amended): the drop of the ResultSource stops nothing by itself; the
\* task ends, by the panic of the failed send, at the first response it
\* reads after the drop, and the request stream is then finished or
\* dropped; a task ended by a failed send has dropped result_sender.
C21_DropStopsOnNextResponse ==
    /\ [][(~result_receiver /\ received' # received) =>
             /\ task' = "panicked"
             /\ exit_cause' = "send"
             /\ ~AudioReceiverAlive']_vars
    /\ [](exit_cause = "send" =>
             /\ ~result_receiver
             /\ ~result_sender
             /\ ~AudioReceiverAlive
             /\ task = "panicked")

\* the ResultSource was dropped, a frame enqueued after the drop was written
\* to the stream, and the task then ended on the next response
C21_Witness ==
    /\ ~result_receiver
    /\ old_queued = -2
    /\ exit_cause = "send"
    /\ task = "panicked"

\* C22: the frames written to the network stream followed by the frames
\* still queued are exactly the frames enqueued, in order: a frame is written
\* at most once, only if it was enqueued, and leaves the queue when written.
\* Once the receiver is gone the queue no longer exists and what was written
\* remains a prefix of what was enqueued.
C22_WrittenThenQueued ==
    IF AudioReceiverAlive
    THEN AudioOf(wire) \o audio_queue = enqueued
    ELSE /\ Len(AudioOf(wire)) <= Len(enqueued)
         /\ \A i \in 1..Len(AudioOf(wire)) : AudioOf(wire)[i] = enqueued[i]

\* one frame has been written while a later one is still queued
C22_Witness ==
    /\ AudioReceiverAlive
    /\ Len(AudioOf(wire)) >= 1
    /\ audio_queue # <<>>

\* ========================================================================
\* Claims about a session without failure (checked under SpecDrain)
\* ========================================================================

\* the config followed by every frame the caller enqueued
FullWire ==
    <<ConfigRequest(config)>>
        \o [i \in 1..Len(enqueued) |-> AudioRequest(enqueued[i])]

\* C16 (as stated): when the caller has enqueued frames and closed the
\* AudioSink, the service has then closed its side without error and the
\* task has returned, the stream has observed the config (here: already
\* written when the task returned), every enqueued frame and the
\* write-close.
C16_StreamObservedAll ==
    (/\ enqueued # <<>>
     /\ closed_after_sink
     /\ task = "done"
     /\ wire # <<>>) =>
        (write_closed /\ wire = FullWire)

\* C16 (amended): once the AudioSink is closed and the service has closed
\* its side without error, the task eventually returns and the ResultSource
\* eventually reports closed with every received event delivered; once the
\* AudioSink is closed the request stream eventually ends or is dropped
\* with the returning task; whenever the write-close was observed, the
\* stream carries the config followed by every enqueued frame.
C16_DrainsAndCloses ==
    /\ (~audio_sender /\ net_end = "closed")
          ~> (task = "done" /\ result_closed /\ delivered = received)
    /\ ~audio_sender ~> (write_closed \/ task = "done")
    /\ [](write_closed => wire = FullWire)
    /\ [](result_closed => (task = "done" /\ delivered = received))

\* frames were enqueued, the AudioSink was closed, the service answered and
\* then closed its side; the stream carries the config, the frames and the
\* write-close, the task has returned and the ResultSource reported closed
\* after delivering every event
C16_Witness ==
    /\ closed_after_sink
    /\ task = "done"
    /\ write_closed
    /\ wire = FullWire
    /\ Len(enqueued) >= 2
    /\ result_closed
    /\ delivered = received
    /\ Len(delivered) >= 2

\* ========================================================================
\* Claims about the token cache (checked under SpecAuth)
\* ========================================================================

\* C9: a call that reads a cached token before its expiry makes no exchange
\* and returns that token; no call makes more than one exchange; so two
\* successive calls of a caller of which one read a still valid token make
\* at most one exchange together.
C9_NoRefetchWhileValid ==
    \A c \in Callers :
        /\ call_exchanges[c] <= 1
        /\ SawValid(seen[c]) =>
              /\ call_exchanges[c] = 0
              /\ pc[c] = "returned"
              /\ ret[c] = seen[c].iam_token
        /\ (SawValid(seen[c]) \/ SawValid(prev_call[c].seen)) =>
              prev_call[c].exchanges + call_exchanges[c] <= 1

\* the cache held a token valid for 3600 seconds; a caller asked twice
\* within one second and neither call made an exchange
C9_Witness ==
    \E c \in Callers :
        /\ pc[c] = "returned"
        /\ prev_call[c].seen.at >= 0
        /\ prev_call[c].seen.expires_at - prev_call[c].seen.at = 3600
        /\ seen[c].at = prev_call[c].seen.at + 1
        /\ ret[c] = prev_call[c].seen.iam_token
        /\ prev_call[c].exchanges + call_exchanges[c] = 0
        /\ exchanges = 1

\* C10: a call returns the cached token only if it read it before its
\* expiry; a call that finds the cached token expired makes one exchange,
\* returns the token of that exchange (not the expired one), whose expiry is
\* later than the moment the old one was found expired, and the slot holds
\* exactly that exchange's result when the call has written it.
C10_ExpiredIsRefetched ==
    \A c \in Callers :
        pc[c] = "returned" =>
            /\ (seen[c].at >= 0 /\ ret[c] = seen[c].iam_token) =>
                  seen[c].expires_at > seen[c].at
            /\ SawExpired(seen[c]) =>
                  /\ call_exchanges[c] = 1
                  /\ ret[c] = result[c].iam_token
                  /\ ret[c] # seen[c].iam_token
                  /\ result[c].expires_at > seen[c].at
                  /\ published[c] = result[c]

\* a call found the cached token expired, refreshed it, and the slot now
\* holds the new, valid token
C10_Witness ==
    \E c \in Callers :
        /\ pc[c] = "returned"
        /\ seen[c].at >= 0
        /\ seen[c].expires_at < seen[c].at
        /\ TOKEN = result[c]
        /\ ret[c] = TOKEN.iam_token
        /\ TOKEN.expires_at > now

\* C11: a call that found TOKEN empty makes one exchange before it returns,
\* returns the token of that exchange, and when it has returned the slot is
\* set and holds an issued token; this holds for each of several callers
\* that found TOKEN empty at the same time.
C11_FirstCallFetches ==
    \A c \in Callers :
        (pc[c] = "returned" /\ seen[c].at = -1) =>
            /\ call_exchanges[c] = 1
            /\ ret[c] = result[c].iam_token
            /\ ret[c] \in 1..exchanges
            /\ TOKEN_set
            /\ TOKEN.iam_token \in 1..exchanges

\* two callers found TOKEN empty, each made its own exchange and returned
\* its own token; the slot holds the token of one of them
C11_Witness ==
    \E c, d \in Callers :
        /\ c # d
        /\ pc[c] = "returned" /\ seen[c].at = -1
        /\ pc[d] = "returned" /\ seen[d].at = -1
        /\ calls[c] = 1 /\ calls[d] = 1
        /\ ret[c] # ret[d]
        /\ TOKEN_set
        /\ TOKEN.iam_token = ret[c]

\* C12 (as stated): a call whose signing or exchange failed ends by handing
\* a value, the AuthError, to the caller that awaited the token: no call of
\* get_auth_token ends by unwinding its caller.
C12_AuthErrorReturned ==
    \A c \in Callers : pc[c] # "panicked"

\* C12 (amended): when signing or the exchange fails the call panics:
\* nothing is returned to its caller, and the step changes neither the
\* position, the fetched result nor the returned token of any other caller.
C12_FailureIsCallersPanic ==
    [][\A c \in Callers :
          (pc[c] # "panicked" /\ pc'[c] = "panicked") =>
              /\ ret'[c] = 0
              /\ \A d \in Callers \ {c} :
                    /\ pc'[d] = pc[d]
                    /\ ret'[d] = ret[d]
                    /\ result'[d] = result[d]]_vars

\* a caller's refresh panicked; another caller, which read the cache later,
\* has returned the token of its own exchange
C12_Witness ==
    \E c, d \in Callers :
        /\ c # d
        /\ pc[c] = "panicked" /\ ret[c] = 0
        /\ seen[c].at >= 0
        /\ pc[d] = "returned"
        /\ seen[d].at > seen[c].at
        /\ call_exchanges[d] = 1
        /\ ret[d] = result[d].iam_token

\* C13: a call whose exchange fails never touches the cache: each of its
\* steps (entering, reading under the read guard, failing) leaves TOKEN,
\* its OnceCell and the lock as they were; a caller that panicked holds no
\* guard and fetched nothing.
C13_FailureLeavesCache ==
    [][\A c \in Callers :
          /\ (pc'[c] # pc[c] /\ pc'[c] \in {"read_wait", "init_fetch",
                                             "refresh_fetch", "panicked"}) =>
                UNCHANGED <<TOKEN_set, TOKEN, lock_writer>>
          /\ pc'[c] = "panicked" =>
                /\ lock_writer' # c
                /\ call_exchanges'[c] = 0
                /\ result'[c] = NoResult]_vars

\* a caller's refresh of an expired token failed (its call before read the
\* expired token and made no exchange); its next call read the same expired
\* token, made an exchange, and the slot now holds that valid token
C13_Witness ==
    \E c \in Callers :
        /\ SawExpired(prev_call[c].seen)
        /\ prev_call[c].exchanges = 0
        /\ pc[c] = "returned"
        /\ seen[c].iam_token = prev_call[c].seen.iam_token
        /\ seen[c].expires_at = prev_call[c].seen.expires_at
        /\ call_exchanges[c] = 1
        /\ TOKEN = result[c]
        /\ TokenValid(TOKEN.expires_at, now)

\* the pair (token, expires_at) is the result of one exchange
IssuedTogether(token, expires_at) ==
    /\ token \in 1..Len(issued)
    /\ issued[token] = expires_at

\* C14: every (token, expiry) pair a call reads under the read guard, and
\* the pair in the slot whenever no write guard is out, is the result of one
\* single exchange; a call that returned after reading an expired token
\* left in the slot another token, issued with its expiry and not expired
\* when the old one was read.
C14_PairsAreIssuedTogether ==
    /\ \A c \in Callers :
          /\ seen[c].at >= 0 =>
                IssuedTogether(seen[c].iam_token, seen[c].expires_at)
          /\ (pc[c] = "returned" /\ SawExpired(seen[c])) =>
                /\ published[c].iam_token # seen[c].iam_token
                /\ IssuedTogether(published[c].iam_token,
                                  published[c].expires_at)
                /\ published[c].expires_at > seen[c].at
    /\ (TOKEN_set /\ lock_writer = 0) =>
          IssuedTogether(TOKEN.iam_token, TOKEN.expires_at)

\* a caller replaced an expired token, and another caller has read the new
\* token, whose expiry differs from the old one's, under the read guard
C14_Witness ==
    \E c, d \in Callers :
        /\ c # d
        /\ pc[c] = "returned"
        /\ SawExpired(seen[c])
        /\ seen[d].at >= 0
        /\ seen[d].iam_token = result[c].iam_token
        /\ seen[d].expires_at = result[c].expires_at
        /\ seen[d].expires_at # seen[c].expires_at

\* C18: every call that read an expired token makes its own exchange: two
\* callers that read the same expired token and have both fetched hold the
\* results of two different exchanges, and each of them, once returned,
\* has returned the token of its own, answered exchange.
C18_EachRefreshOwnExchange ==
    /\ \A c \in Callers :
          (pc[c] = "returned" /\ SawExpired(seen[c])) =>
              /\ ret[c] = result[c].iam_token
              /\ IssuedTogether(result[c].iam_token, result[c].expires_at)
    /\ \A c, d \in Callers :
          (/\ c # d
           /\ SawExpired(seen[c]) /\ SawExpired(seen[d])
           /\ seen[c].iam_token = seen[d].iam_token
           /\ call_exchanges[c] = 1 /\ call_exchanges[d] = 1) =>
              /\ result[c].iam_token # result[d].iam_token
              /\ exchanges >= 2

\* two callers read the same expired token, each made an exchange, both
\* returned: two exchanges were made for one expiry
C18_Witness ==
    \E c, d \in Callers :
        /\ c # d
        /\ pc[c] = "returned" /\ pc[d] = "returned"
        /\ SawExpired(seen[c]) /\ SawExpired(seen[d])
        /\ seen[c].iam_token = seen[d].iam_token
        /\ call_exchanges[c] = 1 /\ call_exchanges[d] = 1
        /\ ret[c] # ret[d]
        /\ exchanges = seen[c].iam_token + 2

\* C19: the step that completes a refresh leaves in the slot exactly the
\* result of the caller that holds the write guard, whatever the slot held,
\* and releases the guard: the slot is never compared with the result.
C19_LastWriterWins ==
    [][\A c \in Callers :
          (pc[c] = "write_half" /\ pc'[c] = "returned") =>
              /\ lock_writer = c
              /\ TOKEN' = result[c]
              /\ lock_writer' = 0]_vars

\* two concurrent refreshes have completed; the slot holds the token of the
\* one that wrote last, although the other one's token was issued later and
\* expires later
C19_Witness ==
    \E c, d \in Callers :
        /\ c # d
        /\ pc[c] = "returned" /\ pc[d] = "returned"
        /\ SawExpired(seen[c]) /\ SawExpired(seen[d])
        /\ seen[c].iam_token = seen[d].iam_token
        /\ published[d] = result[d]
        /\ TOKEN = result[c]
        /\ lock_writer = 0
        /\ result[c].iam_token < result[d].iam_token
        /\ result[c].expires_at < result[d].expires_at

\* C24: the slot is created by the first caller that reaches TOKEN.set; a
\* first-time caller that reaches it later gets its own token back and the
\* slot is left as it is; a slot once created is never emptied, and every
\* call started after that takes the cached-slot branch.
C24_FirstWriterWins ==
    /\ [][TOKEN_set => TOKEN_set']_vars
    /\ [][\A c \in Callers :
            (pc[c] = "init_set" /\ pc'[c] # "init_set") =>
                /\ pc'[c] = "returned"
                /\ ret'[c] = result[c].iam_token
                /\ TOKEN_set'
                /\ TOKEN' = IF TOKEN_set THEN TOKEN ELSE result[c]]_vars
    /\ [][\A c \in Callers :
            (calls'[c] # calls[c] /\ TOKEN_set) => pc'[c] = "read_wait"]_vars

\* a first-time caller returned a token that is not the one in the slot,
\* and the other caller's next call read the slot
C24_Witness ==
    \E c, d \in Callers :
        /\ c # d
        /\ pc[d] = "returned" /\ seen[d].at = -1
        /\ TOKEN_set
        /\ ret[d] # TOKEN.iam_token
        /\ prev_call[c].seen.at = -1 /\ prev_call[c].exchanges = 1
        /\ calls[c] = 2 /\ seen[c].at >= 0
        /\ exchanges = 2

\* ========================================================================
\* Claims about spreadsheet updates (checked under SpecSheets)
\* ========================================================================

\* C17: when update() is called without response_date_time_render_option,
\* the request it sends carries responseDateTimeRenderOption=SERIAL_NUMBER,
\* the default the documentation of UpdateParams states.
C17_DefaultDateTimeIsSerialNumber ==
    (update_sent # <<>> /\ update_params.response_date_time_render_option = <<>>) =>
        QueryValues(update_sent[1].query, "responseDateTimeRenderOption")
            = {"SERIAL_NUMBER"}

\* ========================================================================
\* Claims about two concurrent sessions (checked under SpecPair)
\* ========================================================================

\* a step in which the first session fails or its task ends
SessionEnds ==
    \/ task \notin {"done", "panicked"} /\ task' \in {"done", "panicked"}
    \/ net_end # "error" /\ net_end' = "error"

\* C15: a step in which one session fails (handshake failure, stream error)
\* or its task ends changes nothing of the other session (channels, request
\* stream, task, network stream) and nothing of the token cache; the other
\* session's result channel and request stream are closed only by its own
\* task and its own caller.
C15_FailureIsLocal ==
    /\ [][SessionEnds =>
             UNCHANGED <<peerVars, TOKEN_set, TOKEN, lock_writer>>]_vars
    /\ [](/\ peer_result_sender = (peer_task \in {"spawned", "handshake", "recv"})
          /\ peer_stream = "dropped" => peer_task = "done"
          /\ peer_write_closed =>
                (~peer_audio_sender /\ AudioOf(peer_wire) = peer_enqueued)
          /\ IsPrefix(peer_delivered, peer_server_sent)
          /\ TOKEN_set /\ IssuedTogether(TOKEN.iam_token, TOKEN.expires_at))

\* the first session failed on a stream error while the task of the second
\* one was running; the second session has since written its config and
\* frame and the write-close, delivered its response and ended normally
C15_Witness ==
    /\ task = "panicked"
    /\ exit_cause = "stream"
    /\ peer_at_end = "running"
    /\ peer_task = "done"
    /\ peer_write_closed
    /\ peer_wire = <<ConfigRequest(default_config)>>
                       \o [i \in 1..Len(peer_enqueued) |->
                              AudioRequest(peer_enqueued[i])]
    /\ peer_enqueued # <<>>
    /\ peer_delivered = peer_server_sent
    /\ peer_delivered # <<>>
    /\ peer_result_closed

\* ========================================================================
\* Claims about the start of a session (C23 checked under SpecService, C25
\* under SpecStart)
\* ========================================================================

\* C23: SERVICE is set at most once: the first initialize that reaches
\* SERVICE.set stores its instance; an initialize that reaches it later
\* panics with "Already initialized" and the stored instance stays; every
\* call of streaming_recognize that got an instance got the stored one.
C23_ServiceSetOnce ==
    /\ [][SERVICE # 0 => SERVICE' = SERVICE]_vars
    /\ [][\A i \in Inits :
            (init_pc[i] = "connected" /\ init_pc'[i] # "connected") =>
                IF SERVICE = 0
                THEN SERVICE' = i /\ init_pc'[i] = "done"
                ELSE SERVICE' = SERVICE
                     /\ init_pc'[i] = "already_initialized"]_vars
    /\ [](\A c \in Callers : rec_service[c] # 0 => rec_service[c] = SERVICE)

\* a second initialize has panicked, and two calls of streaming_recognize
\* hold the instance of the first
C23_Witness ==
    /\ \E i \in Inits : init_pc[i] = "already_initialized"
    /\ SERVICE = 1
    /\ \A c \in Callers : rec_service[c] = 1

\* C25: streaming_recognize makes one call of get_auth_token, and no channel,
\* stream or task of the session does anything before it has returned; the
\* token it returned is the one the session holds and puts on its request,
\* whatever happens to the cached token afterwards.
C25_TokenFixedAtStart ==
    /\ [](SessionOpen <=> session_token # 0)
    /\ [](~SessionOpen => task = "spawned" /\ wire = <<>> /\ request_token = 0)
    /\ [](request_token # 0 => request_token = session_token)
    /\ [](task # "spawned" => request_token # 0)
    /\ [][(calls'[FirstCaller] # calls[FirstCaller]) =>
             /\ rec_pc[FirstCaller] = "auth"
             /\ calls[FirstCaller] = 1]_vars
    /\ [][session_token # 0 => session_token' = session_token]_vars
    /\ [][SessionOpen' /\ ~SessionOpen => session_token' = ret[FirstCaller]]_vars

\* the session put its token on its request; the cached token has since
\* expired and has been replaced by another
C25_Witness ==
    /\ request_token # 0
    /\ request_token = session_token
    /\ TOKEN.iam_token # request_token
    /\ now >= issued[request_token]
    /\ rec_service[FirstCaller] = SERVICE
    /\ task = "recv"

\* ========================================================================
\* Claims about the business counter (checked under SpecBusy)
\* ========================================================================

\* C26: BUSINESS_COUNTER is the number of BusinessToken values alive, it is
\* never the wrapped value, and it is 0 whenever no token is alive.
C26_CounterIsAlive ==
    /\ BUSINESS_COUNTER = Alive
    /\ BUSINESS_COUNTER # Wrapped
    /\ ((\A t \in Threads : held[t] = 0) => BUSINESS_COUNTER = 0)

\* every thread has created tokens, all of them have been dropped but one
C26_Witness ==
    /\ \A t \in Threads : made[t] = MaxTokens
    /\ Alive = 1
    /\ BUSINESS_COUNTER = 1

\* C27: is_busy() is true exactly when at least one BusinessToken is alive,
\* in both files, and the is_busy field of a health report is true exactly
\* when a token was alive as the report was taken.
C27_IsBusyIffAlive ==
    /\ is_busy <=> Alive > 0
    /\ business_is_busy <=> Alive > 0
    /\ health_report # <<>> =>
           (health_report[1].is_busy <=> health_report[1].alive > 0)

\* ========================================================================
\* Claims about the log queue (C28 and C30 checked under SpecLog, C29 under
\* SpecLogFair)
\* ========================================================================

\* where entry e is: 1 for each of a spawned task, the queue, a batch handed
\* to write_log
Places(e) ==
    (IF e \in spawned THEN 1 ELSE 0)
    + Cardinality({i \in 1..Len(LOGGER_QUEUE) : LOGGER_QUEUE[i] = e})
    + TimesSent(e, sent)

\* C28: an entry that was pushed is in one place only, a waiting task, the
\* queue or one batch handed to write_log, so it is in at most one batch;
\* an entry pushed while the flusher holds the lock or write_log runs stays
\* out of the batch in progress and is kept for a later one.
C28_AtMostOneBatch ==
    /\ [](\A e \in Entries : TimesSent(e, sent) <= 1)
    /\ [](\A e \in Entries : Places(e) = IF e <= pushed THEN 1 ELSE 0)
    /\ [][(pushed' # pushed /\ flusher \in {"locked", "writing"}) =>
             /\ batch' = batch
             /\ sent' = sent
             /\ \/ pushed' \in spawned'
                \/ \E i \in 1..Len(LOGGER_QUEUE') : LOGGER_QUEUE'[i] = pushed'
             /\ TimesSent(pushed', sent') = 0]_vars

\* write_log runs with the second batch while an entry pushed since the drain
\* is in the queue
C28_Witness ==
    /\ flusher = "writing"
    /\ batch # <<>>
    /\ LOGGER_QUEUE # <<>>
    /\ Len(sent) = 2

\* C29: every entry pushed is eventually in a batch handed to write_log.
C29_PushedEventuallySent ==
    \A e \in Entries : (pushed >= e) ~> (TimesSent(e, sent) = 1)

\* C30: the flusher outlives every failure of write_log: it never ends, and
\* when a call of write_log is over the queue is as it was and the flusher
\* waits for its next round.
C30_FlusherSurvivesFailure ==
    /\ [](flusher # "panicked")
    /\ [][(flusher = "writing" /\ flusher' # "writing") =>
             /\ LOGGER_QUEUE' = LOGGER_QUEUE
             /\ flusher' = "delay"]_vars

====
